---- MODULE Spec2Model ----
(***************************************************************************)
(* Mulled container-image name resolution of                               *)
(* lib/galaxy/tool_util/deps/container_resolvers/mulled.py.                *)
(*                                                                         *)
(* Python strings are sequences of one-character strings.  The Python     *)
(* value None of an optional string is the one-element sequence None,      *)
(* whose element is no character, so that it differs from every string,    *)
(* the empty string included.  A returned record carries its namedtuple    *)
(* class in the field cls; the return value None and a raised exception    *)
(* are records of their own.                                               *)
(***************************************************************************)
EXTENDS Integers, Sequences, FiniteSets, TLC

VARIABLES
    pc,                  \* position: idle, or the call that has returned
    target,              \* the single target that was encoded
    identifier,          \* argument of identifier_to_cached_target
    hash_func,           \* "v1" or "v2"
    namespace,           \* None or the quay.io organisation
    image,               \* what identifier_to_cached_target returned
    contents,            \* os.listdir of the singularity cache directory
    images_and_versions, \* [name, tag] columns of the docker image listing
    raw_images,          \* the parsed listing, None entries included
    cached_images,       \* what the scanner returned
    targets,             \* argument of find_best_matching_cached_image
    found,               \* what find_best_matching_cached_image returned
    output,              \* lines the docker image listing command printed
    scan,                \* how the last description call got its listing
    resolution_cache,    \* None or the caller's resolution cache
    cache_directory,     \* argument of singularity_cached_container_description
    description,         \* the container description a call returned
    registry_tags,       \* what mulled_tags_for returned to the last call
    queried,             \* whether the last call asked the registry for tags
    mulled_name,         \* what targets_to_mulled_name returned
    Schema,              \* mulled_search: the name Schema after the import
    stdout,              \* mulled_search: what main has written
    args,                \* mulled_search: the parsed command line
    searches,            \* mulled_search: the searches main has made
    kwargs,              \* keyword arguments of the app configuration
    raw_config,          \* the raw configuration of the app configuration
    resolver,            \* the container resolver whose resolve was called
    tool_info,           \* resolve: the tool_info argument
    kwds,                \* resolve: enabled_container_types, install and **kwds
    environment,         \* resolve: the registry, image listing and directory
    actions,             \* resolve: the external actions of the call, in order
    error,               \* resolve: the exception the call raised, or None
    job,                 \* galactic_job_json: the job it was called on
    tool_or_workflow,    \* galactic_job_json: "workflow" or "tool"
    upload_responses,    \* galactic_job_json: how upload_func answers
    returned_job,        \* galactic_job_json: the job it returned
    datasets,            \* galactic_job_json: the datasets it returned
    upload_calls,        \* galactic_job_json: the targets upload_func got
    dataset_collections, \* galactic_job_json: the collections it created
    job_raised           \* galactic_job_json: the exception raised, or "none"

parseVars == <<target, identifier, image>>
scanVars == <<contents, images_and_versions, raw_images, cached_images>>
matchVars == <<targets, found>>
describeVars == <<output, scan, resolution_cache, cache_directory, description>>
nameVars == <<registry_tags, queried, mulled_name>>
searchVars == <<Schema, stdout, args, searches>>
configVars == <<kwargs, raw_config>>
resolveVars == <<resolver, tool_info, kwds, environment, actions, error>>
jobVars == <<job, tool_or_workflow, upload_responses, returned_job, datasets,
             upload_calls, dataset_collections, job_raised>>
beyondConfigVars == <<resolveVars, jobVars>>
beyondNameVars == <<searchVars, configVars, beyondConfigVars>>
beyondDescribeVars == <<nameVars, beyondNameVars>>
laterVars == <<describeVars, beyondDescribeVars>>
vars == <<pc, hash_func, namespace, parseVars, scanVars, matchVars, laterVars>>

(***************************************************************************)
(* Bounds                                                                  *)
(***************************************************************************)
MaxBodyLen == 4
MaxVersionLen == 3
MaxBuildLen == 2
MaxImages == 2
MaxTargets == 2

(***************************************************************************)
(* Python values and string primitives                                     *)
(***************************************************************************)
None == <<"None">>

Truthy(s) == s # None /\ s # <<>>

\* p in s instead of s.startswith(p)
startswith_anywhere(s, p) ==
    \E i \in 1..(Len(s) - Len(p) + 1) : SubSeq(s, i, i + Len(p) - 1) = p

\* s.startswith(p)
startswith(s, p) == Len(p) <= Len(s) /\ SubSeq(s, 1, Len(p)) = p

\* positions at which sub occurs in s
Occurrences(s, sub) ==
    {i \in 1..(Len(s) - Len(sub) + 1) : SubSeq(s, i, i + Len(sub) - 1) = sub}

Contains(s, sub) == Occurrences(s, sub) # {}

SetMax(S) == CHOOSE x \in S : \A y \in S : y <= x

SetMin(S) == CHOOSE x \in S : \A y \in S : x <= y

\* s.rsplit(sep, 1) when sep occurs in s: the parts before and after the last sep
RSplit1(s, sep) ==
    LET i == SetMax(Occurrences(s, sep))
    IN  <<SubSeq(s, 1, i - 1), SubSeq(s, i + Len(sep), Len(s))>>

\* s.split(sep, 1) when sep occurs in s: the parts before and after the first sep
Split1(s, sep) ==
    LET i == SetMin(Occurrences(s, sep))
    IN  <<SubSeq(s, 1, i - 1), SubSeq(s, i + Len(sep), Len(s))>>

\* s.rsplit(sep)[-1]
LastSegment(s, sep) == IF Contains(s, sep) THEN RSplit1(s, sep)[2] ELSE s

Digits == {"0", "1", "2", "3", "4", "5", "6", "7", "8", "9"}

IsDigit(s) == Len(s) > 0 /\ \A i \in 1..Len(s) : s[i] \in Digits

Count(s, c) == Cardinality({i \in 1..Len(s) : s[i] = c})

COLON == <<":">>
DASH == <<"-">>
DASHDASH == <<"-", "-">>
SLASH == <<"/">>
LATEST == <<"l", "a", "t", "e", "s", "t">>
MULLED_V1 == <<"m", "u", "l", "l", "e", "d", "-", "v", "1", "-">>
MULLED_V2 == <<"m", "u", "l", "l", "e", "d", "-", "v", "2", "-">>
QUAY_IO == <<"q", "u", "a", "y", ".", "i", "o", "/">>

\* "quay.io/%s/" % namespace
QuayPrefix(ns) == QUAY_IO \o ns \o SLASH

(***************************************************************************)
(* Cached image records                                                    *)
(***************************************************************************)
CachedMulledImageSingleTarget(package_name, version, build, image_identifier) ==
    [cls |-> "CachedMulledImageSingleTarget", package_name |-> package_name,
     version |-> version, build |-> build, image_identifier |-> image_identifier]

CachedV1MulledImageMultiTarget(hash, build, image_identifier) ==
    [cls |-> "CachedV1MulledImageMultiTarget", hash |-> hash, build |-> build,
     image_identifier |-> image_identifier]

\* the record keeps the image name in place of the identifier
CachedV2MulledImageMultiTarget_name_only(image_name, version_hash, build, image_identifier) ==
    [cls |-> "CachedV2MulledImageMultiTarget", image_name |-> image_name,
     version_hash |-> version_hash, build |-> build, image_identifier |-> image_name]

CachedV2MulledImageMultiTarget(image_name, version_hash, build, image_identifier) ==
    [cls |-> "CachedV2MulledImageMultiTarget", image_name |-> image_name,
     version_hash |-> version_hash, build |-> build,
     image_identifier |-> image_identifier]

NoImage == [cls |-> "None"]

AttributeError == [cls |-> "AttributeError"]

multi_target(img) ==
    CASE img.cls = "CachedMulledImageSingleTarget" -> "False"
      [] img.cls = "CachedV1MulledImageMultiTarget" -> "v1"
      [] img.cls = "CachedV2MulledImageMultiTarget" -> "v2"
      [] OTHER -> "undefined"

\* the image name as it is, registry path included
_package_hash_whole(img) == img.image_name

_package_hash(img) ==
    IF ~Contains(img.image_name, SLASH)
    THEN img.image_name
    ELSE LastSegment(img.image_name, SLASH)

\* split_tag of mulled/util.py: tag.rsplit('--', 1)
split_tag(tag) == RSplit1(tag, DASHDASH)

(***************************************************************************)
(* identifier_to_cached_target                                             *)
(***************************************************************************)
\* the identifier cut at its first ":" instead of its last
IdentifierImageName_first_colon(id) ==
    IF Contains(id, COLON) THEN Split1(id, COLON)[1] ELSE id

IdentifierImageName(id) == IF Contains(id, COLON) THEN RSplit1(id, COLON)[1] ELSE id

IdentifierVersion(id) ==
    LET v == IF Contains(id, COLON) THEN RSplit1(id, COLON)[2] ELSE None
    IN  IF ~Truthy(v) \/ v = LATEST THEN None ELSE v

NamespacePrefix(ns) == IF ns # None THEN QuayPrefix(ns) ELSE <<>>

\* the branch of a name that starts with <prefix>mulled-v1-, without the
\* return for hash_func v2
V1Branch_any_hash_func(image_name, version, id, hf) ==
    CachedV1MulledImageMultiTarget(
        image_name, IF Truthy(version) /\ IsDigit(version) THEN version ELSE None, id)

\* the branch of a name that starts with <prefix>mulled-v1-
V1Branch(image_name, version, id, hf) ==
    IF hf = "v2"
    THEN NoImage
    ELSE CachedV1MulledImageMultiTarget(
             image_name, IF Truthy(version) /\ IsDigit(version) THEN version ELSE None, id)

\* the mulled-v2- branch with the tag cut at its first "-" instead of its last
V2Branch_first_dash(image_name, version, id, hf) ==
    IF hf = "v1"
    THEN NoImage
    ELSE IF Truthy(version) /\ Contains(version, DASH)
    THEN CachedV2MulledImageMultiTarget(
             image_name, Split1(version, DASH)[1], Split1(version, DASH)[2], id)
    ELSE IF version = None
    THEN AttributeError
    ELSE IF IsDigit(version)
    THEN CachedV2MulledImageMultiTarget(image_name, None, version, id)
    ELSE CachedV2MulledImageMultiTarget(image_name, None, None, id)

\* the branch of a name that starts with <prefix>mulled-v2-; version.isdigit()
\* is evaluated whenever the tag has no "-", also when version is None
V2Branch(image_name, version, id, hf) ==
    IF hf = "v1"
    THEN NoImage
    ELSE IF Truthy(version) /\ Contains(version, DASH)
    THEN CachedV2MulledImageMultiTarget(
             image_name, RSplit1(version, DASH)[1], RSplit1(version, DASH)[2], id)
    ELSE IF version = None
    THEN AttributeError
    ELSE IF IsDigit(version)
    THEN CachedV2MulledImageMultiTarget(image_name, None, version, id)
    ELSE CachedV2MulledImageMultiTarget(image_name, None, None, id)

\* the branch of every other name
SingleBranch(image_name, version, prefix, id) ==
    LET split == Truthy(version) /\ Contains(version, DASHDASH)
        v == IF split THEN split_tag(version)[1] ELSE version
        build == IF split THEN split_tag(version)[2] ELSE None
        name == IF prefix # <<>> /\ startswith(image_name, prefix)
                THEN SubSeq(image_name, Len(prefix) + 1, Len(image_name))
                ELSE image_name
    IN  CachedMulledImageSingleTarget(name, v, build, id)

identifier_to_cached_target(id, hf, ns) ==
    LET image_name == IdentifierImageName(id)
        version == IdentifierVersion(id)
        prefix == NamespacePrefix(ns)
    IN  IF startswith(image_name, prefix \o MULLED_V1)
        THEN V1Branch(image_name, version, id, hf)
        ELSE IF startswith(image_name, prefix \o MULLED_V2)
        THEN V2Branch(image_name, version, id, hf)
        ELSE SingleBranch(image_name, version, prefix, id)

(***************************************************************************)
(* Targets and the single-target name encoder                              *)
(***************************************************************************)
build_target(package_name, version, build) ==
    [package_name |-> package_name, version |-> version, build |-> build]

NoTarget == build_target(None, None, None)

\* <package>:<version>[--<build>], or <package> when the version is unknown
_simple_image_name(t) ==
    IF t.version = None
    THEN t.package_name
    ELSE t.package_name \o COLON \o t.version
         \o (IF t.build # None THEN DASHDASH \o t.build ELSE <<>>)

(***************************************************************************)
(* Multi-target name encoders (mulled/util.py)                             *)
(***************************************************************************)
NEWLINE == <<"\n">>
EQUALS == <<"=">>
HexDigits == <<"0", "1", "2", "3", "4", "5", "6", "7", "8", "9", "a", "b", "c", "d", "e", "f">>

\* code points of the characters that are hashed or compared
Ord(c) ==
    CASE c = "\n" -> 10
      [] c = "-" -> 45
      [] c = "." -> 46
      [] c = "/" -> 47
      [] c = "0" -> 48
      [] c = "1" -> 49
      [] c = "2" -> 50
      [] c = ":" -> 58
      [] c = "=" -> 61
      [] c = "a" -> 97
      [] c = "b" -> 98
      [] c = "c" -> 99
      [] c = "l" -> 108
      [] c = "n" -> 110
      [] c = "u" -> 117
      [] OTHER -> 120

RECURSIVE Digest(_, _)
Digest(buffer, h) ==
    IF buffer = <<>>
    THEN h
    ELSE Digest(Tail(buffer), (h * 33 + Ord(Head(buffer))) % 4096)

\* hashlib.sha1(buffer).hexdigest(), shortened to three hex digits: a
\* deterministic digest of the whole buffer, sensitive to the order of its
\* characters
sha1_hexdigest(buffer) ==
    LET h == Digest(buffer, 1285)
    IN  <<HexDigits[(h \div 256) + 1], HexDigits[((h \div 16) % 16) + 1],
          HexDigits[(h % 16) + 1]>>

RECURSIVE StrLess(_, _)
\* s < t for Python strings
StrLess(s, t) ==
    IF t = <<>> THEN FALSE
    ELSE IF s = <<>> THEN TRUE
    ELSE IF Ord(Head(s)) # Ord(Head(t)) THEN Ord(Head(s)) < Ord(Head(t))
    ELSE StrLess(Tail(s), Tail(t))

RECURSIVE InsertByName(_, _)
\* t put behind the last element whose package name is not greater
InsertByName(t, sorted) ==
    IF sorted = <<>> THEN <<t>>
    ELSE IF StrLess(t.package_name, Head(sorted).package_name)
    THEN <<t>> \o sorted
    ELSE <<Head(sorted)>> \o InsertByName(t, Tail(sorted))

\* the targets in their declared order
SortedByName_declared(ts) == ts

RECURSIVE SortedByName(_)
\* sorted(targets, key=lambda t: t.package_name): stable
SortedByName(ts) ==
    IF ts = <<>> THEN <<>>
    ELSE InsertByName(ts[Len(ts)], SortedByName(SubSeq(ts, 1, Len(ts) - 1)))

RECURSIVE Join(_, _)
\* sep.join(strs)
Join(sep, strs) ==
    IF strs = <<>> THEN <<>>
    ELSE IF Len(strs) = 1 THEN strs[1]
    ELSE strs[1] \o sep \o Join(sep, Tail(strs))

\* <package>[=<version>[=<build>]]
conda_build_target_str(t) ==
    t.package_name
    \o (IF Truthy(t.version)
        THEN EQUALS \o t.version \o (IF Truthy(t.build) THEN EQUALS \o t.build ELSE <<>>)
        ELSE <<>>)

\* legacy name: one combined hash of all package+version strings
v1_image_name(ts) ==
    IF Len(ts) = 1
    THEN _simple_image_name(ts[1])
    ELSE LET targets_order == SortedByName(ts)
         IN  MULLED_V1 \o sha1_hexdigest(
                 Join(NEWLINE, [i \in 1..Len(ts) |-> conda_build_target_str(targets_order[i])]))

\* <package_hash>[:<version_hash>]: the hash of the sorted package names and,
\* when all versions are known, the hash of the versions in that order
v2_image_name(ts) ==
    IF Len(ts) = 1
    THEN _simple_image_name(ts[1])
    ELSE LET targets_order == SortedByName(ts)
             package_hash ==
                 sha1_hexdigest(Join(NEWLINE, [i \in 1..Len(ts) |-> targets_order[i].package_name]))
             version_hash ==
                 sha1_hexdigest(Join(NEWLINE, [i \in 1..Len(ts) |-> targets_order[i].version]))
         IN  MULLED_V2 \o package_hash
             \o (IF \A i \in 1..Len(ts) : Truthy(ts[i].version)
                 THEN COLON \o version_hash
                 ELSE <<>>)

(***************************************************************************)
(* Cache scanners                                                          *)
(***************************************************************************)
RECURSIVE NotNone(_)
\* [i for i in raw_images if i is not None]
NotNone(imgs) ==
    IF imgs = <<>> THEN <<>>
    ELSE IF Head(imgs) = NoImage THEN NotNone(Tail(imgs))
    ELSE <<Head(imgs)>> \o NotNone(Tail(imgs))

Raises(imgs) == \E i \in 1..Len(imgs) : imgs[i] = AttributeError

\* the parsed directory listing, before the None entries are dropped
PathRawImages(names, hf) ==
    [i \in 1..Len(names) |-> identifier_to_cached_target(names[i], hf, None)]

list_cached_mulled_images_from_path(names, hf) == NotNone(PathRawImages(names, hf))

\* the predicate get_filter(namespace) returns, applied to one listing line
get_filter(ns, line) ==
    /\ startswith(line[1], IF ns = None THEN QUAY_IO ELSE QUAY_IO \o ns)
    /\ Count(line[1], "/") = 2

RECURSIVE Filter(_, _)
Filter(ns, lines) ==
    IF lines = <<>> THEN <<>>
    ELSE IF get_filter(ns, Head(lines)) THEN <<Head(lines)>> \o Filter(ns, Tail(lines))
    ELSE Filter(ns, Tail(lines))

output_line_to_image(line, hf, ns) ==
    identifier_to_cached_target(line[1] \o COLON \o line[2], hf, ns)

DockerRawImages(lines, ns, hf) ==
    LET kept == Filter(ns, lines)
    IN  [i \in 1..Len(kept) |-> output_line_to_image(kept[i], hf, ns)]

list_docker_cached_mulled_images(lines, ns, hf) == NotNone(DockerRawImages(lines, ns, hf))

(***************************************************************************)
(* Matcher                                                                 *)
(***************************************************************************)
RECURSIVE FirstSingle_any_version(_, _)
\* the one-target loop without the comparison of versions
FirstSingle_any_version(t, imgs) ==
    IF imgs = <<>> THEN NoImage
    ELSE LET cached_image == Head(imgs)
         IN  IF multi_target(cached_image) # "False"
             THEN FirstSingle_any_version(t, Tail(imgs))
             ELSE IF cached_image.package_name # t.package_name
             THEN FirstSingle_any_version(t, Tail(imgs))
             ELSE cached_image

RECURSIVE FirstSingle(_, _)
\* the loop of the one-target branch
FirstSingle(t, imgs) ==
    IF imgs = <<>> THEN NoImage
    ELSE LET cached_image == Head(imgs)
         IN  IF multi_target(cached_image) # "False" THEN FirstSingle(t, Tail(imgs))
             ELSE IF cached_image.package_name # t.package_name
             THEN FirstSingle(t, Tail(imgs))
             ELSE IF ~Truthy(t.version) \/ t.version = cached_image.version
             THEN cached_image
             ELSE FirstSingle(t, Tail(imgs))

RECURSIVE FirstV2_lenient(_, _, _)
\* the v2 loop matching on the package hash alone also when the cached image
\* has no version hash
FirstV2_lenient(package_hash, version_hash, imgs) ==
    IF imgs = <<>> THEN NoImage
    ELSE LET cached_image == Head(imgs)
         IN  IF multi_target(cached_image) # "v2"
             THEN FirstV2_lenient(package_hash, version_hash, Tail(imgs))
             ELSE IF version_hash = None \/ cached_image.version_hash = None
             THEN IF package_hash = _package_hash(cached_image)
                  THEN cached_image
                  ELSE FirstV2_lenient(package_hash, version_hash, Tail(imgs))
             ELSE IF /\ package_hash = _package_hash(cached_image)
                     /\ version_hash = cached_image.version_hash
                  THEN cached_image
                  ELSE FirstV2_lenient(package_hash, version_hash, Tail(imgs))

RECURSIVE FirstV2(_, _, _)
\* the loop of the v2 branch
FirstV2(package_hash, version_hash, imgs) ==
    IF imgs = <<>> THEN NoImage
    ELSE LET cached_image == Head(imgs)
         IN  IF multi_target(cached_image) # "v2"
             THEN FirstV2(package_hash, version_hash, Tail(imgs))
             ELSE IF version_hash = None
             THEN IF package_hash = _package_hash(cached_image)
                  THEN cached_image
                  ELSE FirstV2(package_hash, version_hash, Tail(imgs))
             ELSE IF /\ package_hash = _package_hash(cached_image)
                     /\ version_hash = cached_image.version_hash
                  THEN cached_image
                  ELSE FirstV2(package_hash, version_hash, Tail(imgs))

RECURSIVE FirstV1_fallback(_, _)
\* the v1 loop answering with the expected name when no image is cached
FirstV1_fallback(name, imgs) ==
    IF imgs = <<>> THEN CachedV1MulledImageMultiTarget(name, None, name)
    ELSE LET cached_image == Head(imgs)
         IN  IF multi_target(cached_image) # "v1" THEN FirstV1_fallback(name, Tail(imgs))
             ELSE IF name = cached_image.hash THEN cached_image
             ELSE FirstV1_fallback(name, Tail(imgs))

RECURSIVE FirstV1(_, _)
\* the loop of the v1 branch
FirstV1(name, imgs) ==
    IF imgs = <<>> THEN NoImage
    ELSE LET cached_image == Head(imgs)
         IN  IF multi_target(cached_image) # "v1" THEN FirstV1(name, Tail(imgs))
             ELSE IF name = cached_image.hash THEN cached_image
             ELSE FirstV1(name, Tail(imgs))

find_best_matching_cached_image(ts, imgs, hf) ==
    IF Len(ts) = 0 THEN NoImage
    ELSE IF Len(ts) = 1 THEN FirstSingle(ts[1], imgs)
    ELSE IF hf = "v2"
    THEN LET name == v2_image_name(ts)
         IN  IF Contains(name, COLON)
             THEN FirstV2(Split1(name, COLON)[1], Split1(name, COLON)[2], imgs)
             ELSE FirstV2(name, None, imgs)
    ELSE IF hf = "v1" THEN FirstV1(v1_image_name(ts), imgs)
    ELSE NoImage

(***************************************************************************)
(* Inputs of the parser                                                    *)
(***************************************************************************)
SeqsUpTo(A, n) == UNION {[1..k -> A] : k \in 0..n}

HashFuncs == {"v1", "v2"}

\* the matcher is also called with a hash_func it does not implement
MatchHashFuncs == HashFuncs \cup {"v3"}

NS == <<"n", "s">>

Namespaces == {None, NS}

BodyAlphabet == {"a", "1", "-", ":"}

IdentifierPrefixes ==
    {<<>>, MULLED_V1, MULLED_V2, QuayPrefix(NS), QuayPrefix(NS) \o MULLED_V1,
     QuayPrefix(NS) \o MULLED_V2, QuayPrefix(NS \o <<"x">>) \o MULLED_V2}

IdentifierSuffixes == {<<>>, COLON \o LATEST}

Identifiers ==
    {p \o b \o s : p \in IdentifierPrefixes, b \in SeqsUpTo(BodyAlphabet, MaxBodyLen),
                   s \in IdentifierSuffixes}

PackageNames ==
    {p \o b : p \in {<<>>, MULLED_V1, MULLED_V2},
              b \in {<<"a">>, <<"a", "-", "b">>, <<"a", ":", "b">>, <<"a", "/", "b">>}}

VersionAlphabet == {"1", "-", ":"}

Versions == (SeqsUpTo(VersionAlphabet, MaxVersionLen) \ {<<>>}) \cup {LATEST}

Builds == SeqsUpTo(VersionAlphabet, MaxBuildLen) \cup {None}

(***************************************************************************)
(* The docker image listing command and the resolution cache.  A printed   *)
(* line is the sequence of its words and of the blanks between them.       *)
(***************************************************************************)
SPACE == <<" ">>

IsWord(w) == w # SPACE

\* l.split()
split(line) == SelectSeq(line, IsWord)

\* l.split()[1:3]
FirstTwoColumns_from_second(line) ==
    LET cols == split(line)
    IN  SubSeq(cols, 2, IF Len(cols) < 3 THEN Len(cols) ELSE 3)

\* l.split()[0:2]
FirstTwoColumns(line) ==
    LET cols == split(line)
    IN  SubSeq(cols, 1, IF Len(cols) < 2 THEN Len(cols) ELSE 2)

\* [l.split()[0:2] for l in images_and_versions[1:]]
ImagesAndVersions(lines) ==
    IF lines = <<>> THEN <<>>
    ELSE [i \in 1..(Len(lines) - 1) |-> FirstTwoColumns(lines[i + 1])]

NoCache == [cls |-> "None"]

\* a resolution cache that holds no key yet and has no attribute
\* mulled_resolution_cache
EmptyCache ==
    [cls |-> "dict", has_cached_images |-> FALSE, cached_images |-> <<>>,
     has_unresolved |-> FALSE, unresolved |-> {}, mulled_resolution_cache |-> NoCache]

\* resolution_cache is not None and cache_key in resolution_cache
CacheHit(cache) == cache # NoCache /\ cache.has_cached_images

\* the namespace filter applied before the listing is stored
CacheValue_filtered(lines, ns) == Filter(ns, lines)

\* the value stored under cache_key: the columns of every listed image
CacheValue(lines, ns) == lines

\* resolution_cache[cache_key] = images_and_versions
CachePut(cache, lines, ns) ==
    IF cache = NoCache THEN cache
    ELSE [cache EXCEPT !.has_cached_images = TRUE, !.cached_images = CacheValue(lines, ns)]

(***************************************************************************)
(* Container descriptions                                                  *)
(***************************************************************************)
ContainerDescription(id, type, shell) ==
    [cls |-> "ContainerDescription", identifier |-> id, type |-> type, shell |-> shell]

NoContainer == [cls |-> "None"]

\* if image: ContainerDescription(image.image_identifier, type="docker", ...)
DockerContainer(img, shell) ==
    IF img = NoImage THEN NoContainer
    ELSE ContainerDescription(img.image_identifier, "docker", shell)

\* the working directory of the process
CWD == <<"/", "w">>

\* os.path.join(a, b)
join(a, b) ==
    IF startswith(b, SLASH) THEN b
    ELSE IF a = <<>> \/ a[Len(a)] = "/" THEN a \o b
    ELSE a \o SLASH \o b

RECURSIVE Components(_)
\* path.split("/")
Components(path) ==
    IF Contains(path, SLASH)
    THEN <<Split1(path, SLASH)[1]>> \o Components(Split1(path, SLASH)[2])
    ELSE <<path>>

RECURSIVE Normalise(_, _)
\* the loop of normpath on an absolute path: empty and "." components are
\* dropped, ".." removes the component before it
Normalise(comps, acc) ==
    IF comps = <<>> THEN acc
    ELSE IF Head(comps) = <<>> \/ Head(comps) = <<".">>
    THEN Normalise(Tail(comps), acc)
    ELSE IF Head(comps) = <<".", ".">>
    THEN Normalise(Tail(comps), IF acc = <<>> THEN acc ELSE SubSeq(acc, 1, Len(acc) - 1))
    ELSE Normalise(Tail(comps), Append(acc, Head(comps)))

RECURSIVE JoinPath(_)
JoinPath(comps) ==
    IF comps = <<>> THEN <<>>
    ELSE IF Len(comps) = 1 THEN Head(comps)
    ELSE Head(comps) \o SLASH \o JoinPath(Tail(comps))

\* os.path.normpath of an absolute path; exactly two leading slashes are kept
normpath(path) ==
    (IF startswith(path, <<"/", "/">>) /\ ~startswith(path, <<"/", "/", "/">>)
     THEN <<"/", "/">> ELSE SLASH) \o JoinPath(Normalise(Components(path), <<>>))

\* os.path.abspath(path)
abspath(path) == normpath(IF startswith(path, SLASH) THEN path ELSE join(CWD, path))

\* the joined path as it is, os.path.abspath left out
SingularityContainer_joined(img, dir, shell) ==
    IF img = NoImage THEN NoContainer
    ELSE ContainerDescription(join(dir, img.image_identifier), "singularity", shell)

\* if image: ContainerDescription(abspath(join(cache_directory, ...)), ...)
SingularityContainer(img, dir, shell) ==
    IF img = NoImage THEN NoContainer
    ELSE ContainerDescription(abspath(join(dir, img.image_identifier)), "singularity", shell)

(***************************************************************************)
(* targets_to_mulled_name                                                  *)
(***************************************************************************)
\* "%s" % x
Str(x) == IF x = None THEN <<"N", "o", "n", "e">> ELSE x

HashFuncStr(hf) ==
    CASE hf = "v1" -> <<"v", "1">>
      [] hf = "v2" -> <<"v", "2">>
      [] OTHER -> <<"v", "3">>

\* "ns[%s]__single__%s__@__%s" % (namespace, target.package_name, target_version)
SingleCacheKey(ns, t) ==
    <<"n", "s", "[">> \o Str(ns) \o <<"]", "_", "_", "s", "i", "n", "g", "l", "e", "_", "_">>
        \o Str(t.package_name) \o <<"_", "_", "@", "_", "_">> \o Str(t.version)

\* "ns[%s]__%s__%s" % (namespace, hash_func, base_image_name)
MultiCacheKey(ns, hf, base_image_name) ==
    <<"n", "s", "[">> \o Str(ns) \o <<"]", "_", "_">> \o HashFuncStr(hf) \o <<"_", "_">>
        \o base_image_name

\* a mulled_resolution_cache without entries
EmptyMulledCache == [cls |-> "cache", entries |-> {}]

\* the resolution cache after lines 240-243: the unresolved set is in it
WithUnresolvedSet(cache) ==
    IF cache = NoCache THEN cache ELSE [cache EXCEPT !.has_unresolved = TRUE]

\* unresolved_cache: the set of the resolution cache, or a new set
UnresolvedCache(cache) == IF cache = NoCache THEN {} ELSE cache.unresolved

\* mulled_resolution_cache of lines 247-249
MulledResolutionCache(cache) ==
    IF cache # NoCache THEN cache.mulled_resolution_cache ELSE NoCache

\* resolution_cache.get(cache_key): the resolution cache holds the two keys
\* of this module and never a cache_key
ResolutionCacheGet(cache, cache_key) == None

\* cached_name(cache_key)
cached_name(cache, cache_key) ==
    IF MulledResolutionCache(cache) # NoCache
           /\ \E e \in MulledResolutionCache(cache).entries : e[1] = cache_key
    THEN ResolutionCacheGet(cache, cache_key)
    ELSE None

\* mulled_resolution_cache.put(cache_key, name)
MulledPut(mrc, cache_key, nm) ==
    [mrc EXCEPT !.entries = {e \in @ : e[1] # cache_key} \cup {<<cache_key, nm>>}]

\* the version part of a registry tag
TagVersion(tag) == IF Contains(tag, DASHDASH) THEN split_tag(tag)[1] ELSE tag

\* the build part of a registry tag
TagBuild(tag) == IF Contains(tag, DASHDASH) THEN split_tag(tag)[2] ELSE None

\* the name made of a tag that fits, the build left out
NameOfTag_without_build(package_name, tag) == package_name \o COLON \o TagVersion(tag)

\* name = "%s:%s" % (package_name, version); if build: name = "%s--%s" % (name, build)
NameOfTag(package_name, tag) ==
    package_name \o COLON \o TagVersion(tag)
        \o (IF Truthy(TagBuild(tag)) THEN DASHDASH \o TagBuild(tag) ELSE <<>>)

RECURSIVE NameOfFirstTag(_, _, _)
\* for tag in tags: ... if version == target_version: ... break
NameOfFirstTag(package_name, target_version, tgs) ==
    IF tgs = <<>> THEN None
    ELSE IF TagVersion(Head(tgs)) = target_version
    THEN NameOfTag(package_name, Head(tgs))
    ELSE NameOfFirstTag(package_name, target_version, Tail(tgs))

Returned(nm) == [outcome |-> "returned", name |-> nm]

Raised(exception) == [outcome |-> "raised", name |-> exception]

\* lines 271-286: the name of a single target from the tags of its repository
SingleTargetName(t, tgs) ==
    IF ~Truthy(tgs) THEN Returned(None)
    ELSE IF Truthy(t.version)
    THEN Returned(NameOfFirstTag(t.package_name, t.version, tgs))
    ELSE IF Contains(tgs[1], DASHDASH)
    THEN Returned(t.package_name \o COLON \o split_tag(tgs[1])[1]
                      \o DASHDASH \o split_tag(tgs[1])[2])
    ELSE Raised(<<"ValueError">>)

\* tags[0] if tags else None
first_tag_if_available(tgs) == IF Truthy(tgs) THEN tgs[1] ELSE None

\* lines 313-323: the name of several targets from the first tag
MultiTargetName(base_image_name, tgs) ==
    LET tag == first_tag_if_available(tgs)
    IN  IF ~Truthy(tag) THEN Returned(None)
        ELSE IF Contains(base_image_name, COLON)
        THEN Returned(Split1(base_image_name, COLON)[1] \o COLON \o tag)
        ELSE Returned(base_image_name \o COLON \o tag)

\* lines 325-330: the caches after a name was computed
CachesAfter(cache, cache_key, nm) ==
    IF cache = NoCache THEN cache
    ELSE [cache EXCEPT
             !.mulled_resolution_cache =
                 IF Truthy(nm) /\ @ # NoCache THEN MulledPut(@, cache_key, nm) ELSE @,
             !.unresolved = IF nm = None THEN @ \cup {None} ELSE @]

\* the function from the cache key on: the result, whether the registry
\* was asked, and the resolution cache afterwards
NameUnderKey(cache, cache_key, computed) ==
    IF cache_key \in UnresolvedCache(cache)
    THEN [result |-> Returned(None), queried |-> FALSE, cache |-> cache]
    ELSE IF Truthy(cached_name(cache, cache_key))
    THEN [result |-> Returned(cached_name(cache, cache_key)), queried |-> FALSE,
          cache |-> cache]
    ELSE IF computed.outcome = "raised"
    THEN [result |-> computed, queried |-> TRUE, cache |-> cache]
    ELSE [result |-> computed, queried |-> TRUE,
          cache |-> CachesAfter(cache, cache_key, computed.name)]

\* targets_to_mulled_name(targets, hash_func, namespace, resolution_cache),
\* tgs being what mulled_tags_for returns when it is called
targets_to_mulled_name(ts, hf, ns, resolution_cache0, tgs) ==
    LET cache == WithUnresolvedSet(resolution_cache0)
    IN  IF Len(ts) = 1
        THEN NameUnderKey(cache, SingleCacheKey(ns, ts[1]), SingleTargetName(ts[1], tgs))
        ELSE IF hf = "v2"
        THEN NameUnderKey(cache, MultiCacheKey(ns, hf, v2_image_name(ts)),
                          MultiTargetName(v2_image_name(ts), tgs))
        ELSE IF hf = "v1"
        THEN NameUnderKey(cache, MultiCacheKey(ns, hf, v1_image_name(ts)),
                          MultiTargetName(v1_image_name(ts), tgs))
        ELSE [result |-> Raised(<<"Exception">>), queried |-> FALSE, cache |-> cache]

\* mulled_search: parse_args has not returned
NoArgs == [cls |-> "None"]

(***************************************************************************)
(* Specification of the parser: identifier_to_cached_target called on an   *)
(* arbitrary identifier, and on the encoded name of a single target.       *)
(***************************************************************************)
Init ==
    /\ pc = "idle"
    /\ target = NoTarget
    /\ identifier = <<>>
    /\ hash_func = "v2"
    /\ namespace = None
    /\ image = NoImage
    /\ contents = <<>>
    /\ images_and_versions = <<>>
    /\ raw_images = <<>>
    /\ cached_images = <<>>
    /\ targets = <<>>
    /\ found = NoImage
    /\ output = <<>>
    /\ scan = "none"
    /\ resolution_cache = NoCache
    /\ cache_directory = <<>>
    /\ description = NoContainer
    /\ registry_tags = None
    /\ queried = FALSE
    /\ mulled_name = None
    /\ Schema = "unbound"
    /\ stdout = <<>>
    /\ args = NoArgs
    /\ searches = <<>>
    /\ kwargs = <<>>
    /\ raw_config = <<>>
    /\ resolver = [cls |-> "None"]
    /\ tool_info = [cls |-> "None"]
    /\ kwds = [cls |-> "None"]
    /\ environment = [cls |-> "None"]
    /\ actions = <<>>
    /\ error = None
    /\ job = [t |-> "NoneType"]
    /\ tool_or_workflow = "workflow"
    /\ upload_responses = <<>>
    /\ returned_job = [t |-> "NoneType"]
    /\ datasets = <<>>
    /\ upload_calls = <<>>
    /\ dataset_collections = <<>>
    /\ job_raised = "none"

ParseIdentifier ==
    /\ pc = "idle"
    /\ \E id \in Identifiers, hf \in HashFuncs, ns \in Namespaces :
        /\ pc' = "parsed"
        /\ target' = NoTarget
        /\ identifier' = id
        /\ hash_func' = hf
        /\ namespace' = ns
        /\ image' = identifier_to_cached_target(id, hf, ns)
        /\ UNCHANGED <<scanVars, matchVars, laterVars>>

EncodeAndParse ==
    /\ pc = "idle"
    /\ \E pkg \in PackageNames, v \in Versions, b \in Builds, hf \in HashFuncs :
        LET t == build_target(pkg, v, b)
        IN  /\ pc' = "roundtrip"
            /\ target' = t
            /\ identifier' = _simple_image_name(t)
            /\ hash_func' = hf
            /\ namespace' = None
            /\ image' = identifier_to_cached_target(_simple_image_name(t), hf, None)
            /\ UNCHANGED <<scanVars, matchVars, laterVars>>

NextParse == ParseIdentifier \/ EncodeAndParse

SpecParse == Init /\ [][NextParse]_vars

\* p is an initial segment of s
HasPrefix(s, p) == Len(p) <= Len(s) /\ \A i \in 1..Len(p) : s[i] = p[i]

(***************************************************************************)
(* Inputs of the scanners and the matcher                                  *)
(***************************************************************************)
PA == <<"a">>
PB == <<"b">>
V1 == <<"1">>
V2 == <<"2">>
BUILD0 == <<"0">>

Targets ==
    {build_target(PA, v, None) : v \in {None, V1, V2}}
        \cup {build_target(PB, v, None) : v \in {None, V2}}

TargetLists == SeqsUpTo(Targets, MaxTargets)

Versioned == <<build_target(PA, V1, None), build_target(PB, V2, None)>>
Unversioned == <<build_target(PA, None, None), build_target(PB, None, None)>>
SameName == <<build_target(PA, V1, None), build_target(PA, V2, None)>>

\* <<name, tag>> of images a cache can hold; the tag None is an image file
\* without a tag
CacheEntries ==
    {<<PA, V1>>, <<PA, V2 \o DASHDASH \o BUILD0>>, <<PA, None>>,
     <<IdentifierImageName(v2_image_name(Versioned)),
       IdentifierVersion(v2_image_name(Versioned)) \o DASH \o BUILD0>>,
     <<v2_image_name(Unversioned), BUILD0>>,
     <<v2_image_name(Unversioned), <<"x">>>>,
     <<v2_image_name(Unversioned), None>>,
     <<v1_image_name(Versioned), BUILD0>>,
     <<v1_image_name(Versioned), None>>,
     <<IdentifierImageName(v2_image_name(SameName)),
       IdentifierVersion(v2_image_name(SameName)) \o DASH \o BUILD0>>}

FileName(e) == IF e[2] = None THEN e[1] ELSE e[1] \o COLON \o e[2]

DirectoryNames == {FileName(e) : e \in CacheEntries}

Repositories == {QuayPrefix(NS), QuayPrefix(NS \o <<"x">>)}

DockerEntries ==
    {<<PA, V1>>,
     <<IdentifierImageName(v2_image_name(Versioned)),
       IdentifierVersion(v2_image_name(Versioned)) \o DASH \o BUILD0>>,
     <<v2_image_name(Unversioned), BUILD0>>,
     <<v1_image_name(Versioned), BUILD0>>}

DockerLines == {<<r \o e[1], e[2]>> : r \in Repositories, e \in DockerEntries}

\* listings name every image once
Distinct(seq) == \A i, j \in 1..Len(seq) : i # j => seq[i] # seq[j]

Listings(S) == {l \in SeqsUpTo(S, MaxImages) : Distinct(l)}

(***************************************************************************)
(* Specification of the cache scanners and the matcher: a cache is listed  *)
(* from a directory or from the docker image listing, and the matcher is   *)
(* called on the list.                                                     *)
(***************************************************************************)
ListFromPath ==
    /\ pc = "idle"
    /\ \E names \in Listings(DirectoryNames), hf \in HashFuncs :
        /\ contents' = names
        /\ hash_func' = hf
        /\ namespace' = None
        /\ images_and_versions' = <<>>
        /\ IF Raises(PathRawImages(names, hf))
           THEN pc' = "raised" /\ raw_images' = <<>> /\ cached_images' = <<>>
           ELSE /\ pc' = "listed_path"
                /\ raw_images' = PathRawImages(names, hf)
                /\ cached_images' = list_cached_mulled_images_from_path(names, hf)
        /\ UNCHANGED <<parseVars, matchVars, laterVars>>

ListDocker ==
    /\ pc = "idle"
    /\ \E lines \in Listings(DockerLines), hf \in HashFuncs, ns \in Namespaces :
        /\ images_and_versions' = lines
        /\ hash_func' = hf
        /\ namespace' = ns
        /\ contents' = <<>>
        /\ IF Raises(DockerRawImages(lines, ns, hf))
           THEN pc' = "raised" /\ raw_images' = <<>> /\ cached_images' = <<>>
           ELSE /\ pc' = "listed_docker"
                /\ raw_images' = DockerRawImages(lines, ns, hf)
                /\ cached_images' = list_docker_cached_mulled_images(lines, ns, hf)
        /\ UNCHANGED <<parseVars, matchVars, laterVars>>

FindBest ==
    /\ pc \in {"listed_path", "listed_docker"}
    /\ \E ts \in TargetLists, hf \in MatchHashFuncs :
        /\ pc' = IF pc = "listed_path" THEN "matched_path" ELSE "matched_docker"
        /\ targets' = ts
        /\ hash_func' = hf
        /\ found' = find_best_matching_cached_image(ts, cached_images, hf)
        /\ UNCHANGED <<namespace, parseVars, scanVars, laterVars>>

NextMatch == ListFromPath \/ ListDocker \/ FindBest

SpecMatch == Init /\ [][NextMatch]_vars

Matched == pc \in {"matched_path", "matched_docker"}

(***************************************************************************)
(* Inputs of the container descriptions                                    *)
(***************************************************************************)
MaxLines == 2

REPOSITORY == <<"R", "E", "P", "O", "S", "I", "T", "O", "R", "Y">>
TAG == <<"T", "A", "G">>
IMAGE_ID == <<"I", "D">>

\* the first line docker images prints
HeaderLine == <<REPOSITORY, SPACE, SPACE, TAG, SPACE, IMAGE_ID>>

\* the line docker images prints for one image
ImageLine(name, tag) == <<name, SPACE, SPACE, tag, SPACE, <<"0", "f">>>>

UBUNTU == <<"u", "b", "u", "n", "t", "u">>

ListedImages ==
    {<<QuayPrefix(NS) \o PA, V1>>,
     <<QuayPrefix(<<"o">>) \o PA, V1>>,
     <<QuayPrefix(NS) \o IdentifierImageName(v2_image_name(Versioned)),
       IdentifierVersion(v2_image_name(Versioned)) \o DASH \o BUILD0>>,
     <<QuayPrefix(NS) \o v2_image_name(Unversioned), LATEST>>,
     <<QuayPrefix(NS) \o v1_image_name(Versioned), BUILD0>>,
     <<UBUNTU, LATEST>>}

ImageLines == {ImageLine(e[1], e[2]) : e \in ListedImages}

\* what the command prints when it succeeds: the header and a line per image
Outputs == {<<HeaderLine>> \o l : l \in {m \in SeqsUpTo(ImageLines, MaxLines) : Distinct(m)}}

\* what the command has printed when it fails: nothing, or a full listing
FailedOutputs == {<<>>, <<HeaderLine, ImageLine(QuayPrefix(NS) \o PA, V1)>>}

DescribedTargets ==
    {<<>>, <<build_target(PA, V1, None)>>, <<build_target(PA, V2, None)>>, Versioned}

Shells == {<<"/", "b", "i", "n", "/", "s", "h">>}

\* file names of a singularity cache directory
CachedFiles ==
    {FileName(<<PA, V1>>),
     FileName(<<PA, V2 \o DASHDASH \o BUILD0>>),
     FileName(<<IdentifierImageName(v2_image_name(Versioned)),
                IdentifierVersion(v2_image_name(Versioned)) \o DASH \o BUILD0>>),
     FileName(<<v2_image_name(Unversioned), None>>),
     FileName(<<v1_image_name(Versioned), BUILD0>>)}

CacheDirectories == {<<"/", "c">>, <<"c", "/">>, <<".", ".", "/", "c">>}

(***************************************************************************)
(* Specification of the container descriptions: a caller makes a           *)
(* resolution cache and asks for the description of a cached docker image  *)
(* any number of times, or asks once for a cached singularity image.       *)
(***************************************************************************)
NewResolutionCache ==
    /\ pc = "idle"
    /\ resolution_cache = NoCache
    /\ resolution_cache' = EmptyCache
    /\ UNCHANGED <<pc, hash_func, namespace, parseVars, scanVars, matchVars,
                   output, scan, cache_directory, description, beyondDescribeVars>>

\* a first call, or a later call of a caller that keeps a resolution cache
DockerCallable ==
    \/ pc = "idle"
    \/ pc \in {"described_docker", "raised_docker"} /\ resolution_cache # NoCache

\* docker_cached_container_description called with no targets
DescribeDockerNoTargets ==
    /\ DockerCallable
    /\ \E ns \in Namespaces, hf \in HashFuncs :
        /\ pc' = "described_docker"
        /\ targets' = <<>>
        /\ namespace' = ns
        /\ hash_func' = hf
        /\ scan' = "none"
        /\ description' = NoContainer
        /\ found' = NoImage
        /\ images_and_versions' = <<>>
        /\ raw_images' = <<>>
        /\ cached_images' = <<>>
        /\ UNCHANGED <<parseVars, contents, output, resolution_cache, cache_directory,
                       beyondDescribeVars>>

\* the rest of docker_cached_container_description once the listing is known
DescribeDockerFrom(ts, ns, hf, shell, lines) ==
    /\ targets' = ts
    /\ namespace' = ns
    /\ hash_func' = hf
    /\ images_and_versions' = lines
    /\ IF Raises(DockerRawImages(lines, ns, hf))
       THEN /\ pc' = "raised_docker"
            /\ raw_images' = <<>>
            /\ cached_images' = <<>>
            /\ found' = NoImage
            /\ description' = NoContainer
       ELSE LET imgs == list_docker_cached_mulled_images(lines, ns, hf)
                img == find_best_matching_cached_image(ts, imgs, hf)
            IN  /\ pc' = "described_docker"
                /\ raw_images' = DockerRawImages(lines, ns, hf)
                /\ cached_images' = imgs
                /\ found' = img
                /\ description' = DockerContainer(img, shell)
    /\ UNCHANGED <<parseVars, contents, cache_directory,
                       beyondDescribeVars>>

\* docker_cached_container_description, the listing taken from the cache
DescribeDockerCached ==
    /\ DockerCallable
    /\ CacheHit(resolution_cache)
    /\ \E ts \in DescribedTargets \ {<<>>}, ns \in Namespaces, hf \in HashFuncs,
          shell \in Shells :
        /\ scan' = "cached"
        /\ DescribeDockerFrom(ts, ns, hf, shell, resolution_cache.cached_images)
        /\ UNCHANGED <<output, resolution_cache>>

\* the listing parsed although the command failed
ImagesOnCalledProcessError_parsed(out, ns, hf) ==
    IF Raises(DockerRawImages(ImagesAndVersions(out), ns, hf)) THEN <<>>
    ELSE list_docker_cached_mulled_images(ImagesAndVersions(out), ns, hf)

\* except subprocess.CalledProcessError: ... return []
ImagesOnCalledProcessError(out, ns, hf) == <<>>

\* docker_cached_container_description, the command exiting with a nonzero
\* status after it printed out
DescribeDockerFailed ==
    /\ DockerCallable
    /\ ~CacheHit(resolution_cache)
    /\ \E ts \in DescribedTargets \ {<<>>}, ns \in Namespaces, hf \in HashFuncs,
          shell \in Shells, out \in FailedOutputs :
        LET imgs == ImagesOnCalledProcessError(out, ns, hf)
            img == find_best_matching_cached_image(ts, imgs, hf)
        IN  /\ pc' = "described_docker"
            /\ targets' = ts
            /\ namespace' = ns
            /\ hash_func' = hf
            /\ scan' = "failed"
            /\ output' = out
            /\ images_and_versions' = <<>>
            /\ raw_images' = <<>>
            /\ cached_images' = imgs
            /\ found' = img
            /\ description' = DockerContainer(img, shell)
            /\ UNCHANGED <<parseVars, contents, resolution_cache, cache_directory,
                       beyondDescribeVars>>

\* docker_cached_container_description, the command run and its output read
DescribeDockerListed ==
    /\ DockerCallable
    /\ ~CacheHit(resolution_cache)
    /\ \E ts \in DescribedTargets \ {<<>>}, ns \in Namespaces, hf \in HashFuncs,
          shell \in Shells, out \in Outputs :
        /\ scan' = "ran"
        /\ output' = out
        /\ resolution_cache' = CachePut(resolution_cache, ImagesAndVersions(out), ns)
        /\ DescribeDockerFrom(ts, ns, hf, shell, ImagesAndVersions(out))

docker_cached_container_description ==
    \/ DescribeDockerNoTargets
    \/ DescribeDockerCached
    \/ DescribeDockerFailed
    \/ DescribeDockerListed

\* singularity_cached_container_description returning before the directory
\* is listed: no targets, or the directory does not exist
DescribeSingularityNothing ==
    /\ pc = "idle"
    /\ \E ts \in DescribedTargets, dir \in CacheDirectories, exists \in BOOLEAN,
          hf \in HashFuncs :
        /\ Len(ts) = 0 \/ ~exists
        /\ pc' = "described_singularity"
        /\ targets' = ts
        /\ cache_directory' = dir
        /\ hash_func' = hf
        /\ namespace' = None
        /\ scan' = "none"
        /\ contents' = <<>>
        /\ raw_images' = <<>>
        /\ cached_images' = <<>>
        /\ found' = NoImage
        /\ description' = NoContainer
        /\ UNCHANGED <<parseVars, images_and_versions, output, resolution_cache,
                       beyondDescribeVars>>

\* singularity_cached_container_description on an existing directory
DescribeSingularityListed ==
    /\ pc = "idle"
    /\ \E ts \in DescribedTargets \ {<<>>}, dir \in CacheDirectories, hf \in HashFuncs,
          shell \in Shells, names \in Listings(CachedFiles) :
        /\ targets' = ts
        /\ cache_directory' = dir
        /\ hash_func' = hf
        /\ namespace' = None
        /\ scan' = "listdir"
        /\ contents' = names
        /\ IF Raises(PathRawImages(names, hf))
           THEN /\ pc' = "raised_singularity"
                /\ raw_images' = <<>>
                /\ cached_images' = <<>>
                /\ found' = NoImage
                /\ description' = NoContainer
           ELSE LET imgs == list_cached_mulled_images_from_path(names, hf)
                    img == find_best_matching_cached_image(ts, imgs, hf)
                IN  /\ pc' = "described_singularity"
                    /\ raw_images' = PathRawImages(names, hf)
                    /\ cached_images' = imgs
                    /\ found' = img
                    /\ description' = SingularityContainer(img, dir, shell)
        /\ UNCHANGED <<parseVars, images_and_versions, output, resolution_cache,
                       beyondDescribeVars>>

singularity_cached_container_description ==
    DescribeSingularityNothing \/ DescribeSingularityListed

NextDescribe ==
    \/ NewResolutionCache
    \/ docker_cached_container_description
    \/ singularity_cached_container_description

SpecDescribe == Init /\ [][NextDescribe]_vars

(***************************************************************************)
(* Inputs of targets_to_mulled_name                                        *)
(***************************************************************************)
MaxTags == 2

\* tags of a repository of the registry
RegistryTags == {V1, V1 \o DASHDASH \o BUILD0, V1 \o DASHDASH, V2 \o DASHDASH \o BUILD0}

\* what mulled_tags_for returns: None, or the tags in the registry's order
TagLists == {None} \cup SeqsUpTo(RegistryTags, MaxTags)

\* what it returns to a later call: None, no tag or one tag
LaterTagLists == {None} \cup SeqsUpTo(RegistryTags, 1)

\* targets and hash_func of a call
NamedTargets ==
    {<<<<build_target(PA, V1, None)>>, "v2">>,
     <<<<build_target(PA, None, None)>>, "v2">>,
     <<Versioned, "v1">>, <<Versioned, "v2">>, <<Versioned, "v3">>,
     <<Unversioned, "v2">>}

(***************************************************************************)
(* Specification of targets_to_mulled_name: a first call, and a later call *)
(* of a caller that keeps a resolution cache, with or without a            *)
(* mulled_resolution_cache.                                                *)
(***************************************************************************)
NewMulledResolutionCache ==
    /\ pc = "idle"
    /\ resolution_cache = NoCache
    /\ resolution_cache' = [EmptyCache EXCEPT !.mulled_resolution_cache = EmptyMulledCache]
    /\ UNCHANGED <<pc, hash_func, namespace, parseVars, scanVars, matchVars,
                   output, scan, cache_directory, description, beyondDescribeVars>>

TargetsToMulledName ==
    /\ pc = "idle" \/ (pc = "named" /\ resolution_cache # NoCache)
    /\ \E call \in NamedTargets, ns \in Namespaces,
          tgs \in IF pc = "idle" THEN TagLists ELSE LaterTagLists :
        LET r == targets_to_mulled_name(call[1], call[2], ns, resolution_cache, tgs)
        IN  /\ pc' = IF r.result.outcome = "raised" THEN "raised_name"
                     ELSE IF pc = "idle" THEN "named" ELSE "named_again"
            /\ targets' = call[1]
            /\ hash_func' = call[2]
            /\ namespace' = ns
            /\ queried' = r.queried
            /\ registry_tags' = IF r.queried THEN tgs ELSE None
            /\ mulled_name' = r.result.name
            /\ resolution_cache' = r.cache
            /\ UNCHANGED <<parseVars, scanVars, found, output, scan, cache_directory,
                           description, beyondNameVars>>

NextName == NewResolutionCache \/ NewMulledResolutionCache \/ TargetsToMulledName

SpecName == Init /\ [][NextName]_vars

(***************************************************************************)
(* mulled_search: the import of the search index library and main          *)
(***************************************************************************)
MaxTerms == 2

\* what main writes when the library is missing
REQUIRED_DEPENDENCIES ==
    "Required dependencies are not installed. Run 'pip install Whoosh'.\n"

Destinations == {"conda", "github", "quay", "singularity"}

\* the values of -s
SearchTerms == {t \in SeqsUpTo({"a", "b"}, MaxTerms) : Len(t) > 0}

\* get_package_hash(args.search, versions)['package_hash']
PACKAGE_HASH == "package_hash"

\* if Schema is None, taken for false whatever the import gave
SchemaIsNone_never(schema) == FALSE

\* if Schema is None
SchemaIsNone(schema) == schema = "None"

\* args.search after the hash of several packages is appended
SearchItems(search) == IF Len(search) > 1 THEN Append(search, PACKAGE_HASH) ELSE search

\* the requests of one destination, in the order main makes them
CondaRequests(items) == [i \in 1..Len(items) |-> <<"conda.get_json", items[i]>>]

RECURSIVE GithubRequests(_)
GithubRequests(items) ==
    IF items = <<>> THEN <<>>
    ELSE <<<<"github.get_json", Head(items)>>, <<"github.recipe_present", Head(items)>>>>
             \o GithubRequests(Tail(items))

QuayRequests(items) ==
    <<<<"quay.build_index", "">>>>
        \o [i \in 1..Len(items) |-> <<"quay.search_repository", items[i]>>]

SingularityRequests(items) == [i \in 1..Len(items) |-> <<"singularity_search", items[i]>>]

\* every request main makes for the parsed arguments, in order
Requests(search_dest, search) ==
    (IF Len(search) > 1 THEN <<<<"get_package_hash", "">>>> ELSE <<>>)
        \o (IF "conda" \in search_dest THEN CondaRequests(SearchItems(search)) ELSE <<>>)
        \o (IF "github" \in search_dest THEN GithubRequests(SearchItems(search)) ELSE <<>>)
        \o (IF "quay" \in search_dest THEN QuayRequests(SearchItems(search)) ELSE <<>>)
        \o (IF "singularity" \in search_dest
            THEN SingularityRequests(SearchItems(search)) ELSE <<>>)

Namespace(search_dest, search, json, non_strict) ==
    [cls |-> "Namespace", search_dest |-> search_dest, organization_string |-> "biocontainers",
     channel_string |-> "bioconda", non_strict |-> non_strict, json |-> json,
     search |-> search]

\* the module is imported: whoosh is installed or Schema is set to None
ImportMulledSearch ==
    /\ pc = "idle"
    /\ \E schema \in {"None", "Schema"} :
        /\ pc' = "imported"
        /\ Schema' = schema
        /\ UNCHANGED <<hash_func, namespace, parseVars, scanVars, matchVars, describeVars,
                       nameVars, stdout, args, searches, configVars, beyondConfigVars>>

\* main returning at once
MainWithoutSchema ==
    /\ pc = "imported"
    /\ SchemaIsNone(Schema)
    /\ pc' = "main_returned"
    /\ stdout' = Append(stdout, REQUIRED_DEPENDENCIES)
    /\ UNCHANGED <<hash_func, namespace, parseVars, scanVars, matchVars, describeVars,
                   nameVars, Schema, args, searches, configVars, beyondConfigVars>>

\* main leaving through parser.parse_args(): -s is missing
MainUsageError ==
    /\ pc = "imported"
    /\ ~SchemaIsNone(Schema)
    /\ pc' = "main_exited"
    /\ UNCHANGED <<hash_func, namespace, parseVars, scanVars, matchVars, describeVars,
                   nameVars, Schema, stdout, args, searches, configVars, beyondConfigVars>>

\* main making every search and printing the results
MainSearch ==
    /\ pc = "imported"
    /\ ~SchemaIsNone(Schema)
    /\ \E search_dest \in SUBSET Destinations \ {{}}, search \in SearchTerms,
          json \in BOOLEAN, non_strict \in BOOLEAN :
        /\ pc' = "main_returned"
        /\ args' = Namespace(search_dest, SearchItems(search), json, non_strict)
        /\ searches' = Requests(search_dest, search)
        /\ stdout' = Append(stdout, IF json THEN "json_results" ELSE "readable_output")
        /\ UNCHANGED <<hash_func, namespace, parseVars, scanVars, matchVars, describeVars,
                       nameVars, Schema, configVars, beyondConfigVars>>

\* main ended by a request that fails
MainSearchFailed ==
    /\ pc = "imported"
    /\ ~SchemaIsNone(Schema)
    /\ \E search_dest \in SUBSET Destinations \ {{}}, search \in SearchTerms,
          json \in BOOLEAN, non_strict \in BOOLEAN :
        \E k \in 1..Len(Requests(search_dest, search)) :
            /\ pc' = "main_raised"
            /\ args' = Namespace(search_dest,
                                 IF k = 1 /\ Len(search) > 1 THEN search
                                 ELSE SearchItems(search), json, non_strict)
            /\ searches' = SubSeq(Requests(search_dest, search), 1, k)
            /\ UNCHANGED <<hash_func, namespace, parseVars, scanVars, matchVars,
                           describeVars, nameVars, Schema, stdout, configVars, beyondConfigVars>>

main == MainWithoutSchema \/ MainUsageError \/ MainSearch \/ MainSearchFailed

NextSearch == ImportMulledSearch \/ main

SpecSearch == Init /\ [][NextSearch]_vars

(***************************************************************************)
(* The application configuration (galaxy.config), as the unit test of      *)
(* test_load_config.py constructs it over its mock schema.  Python values  *)
(* are records tagged with their type.                                     *)
(***************************************************************************)
MaxKwargs == 2

PyNone == [t |-> "NoneType"]

PyStr(s) == [t |-> "str", s |-> s]

PyInt(i) == [t |-> "int", i |-> i]

\* a float with one decimal, held in tenths
PyFloat(tenths) == [t |-> "float", tenths |-> tenths]

PyBool(b) == [t |-> "bool", b |-> b]

ValueError == [t |-> "ValueError"]

DigitChars == <<"0", "1", "2", "3", "4", "5", "6", "7", "8", "9">>

DigitValue(c) == (CHOOSE d \in 1..10 : DigitChars[d] = c) - 1

RECURSIVE IntToChars(_)
\* str(i) of a natural number
IntToChars(i) ==
    IF i < 10 THEN <<DigitChars[i + 1]>>
    ELSE IntToChars(i \div 10) \o <<DigitChars[(i % 10) + 1]>>

RECURSIVE CharsToInt(_, _)
\* the value of a string of digits
CharsToInt(s, acc) ==
    IF s = <<>> THEN acc ELSE CharsToInt(Tail(s), acc * 10 + DigitValue(Head(s)))

UpperCase == <<"A", "B", "C", "D", "E", "F", "G", "H", "I", "J", "K", "L", "M",
               "N", "O", "P", "Q", "R", "S", "T", "U", "V", "W", "X", "Y", "Z">>

LowerCase == <<"a", "b", "c", "d", "e", "f", "g", "h", "i", "j", "k", "l", "m",
               "n", "o", "p", "q", "r", "s", "t", "u", "v", "w", "x", "y", "z">>

\* s.lower()
lower(s) ==
    [i \in 1..Len(s) |->
        IF \E k \in 1..26 : UpperCase[k] = s[i]
        THEN LowerCase[CHOOSE k \in 1..26 : UpperCase[k] = s[i]]
        ELSE s[i]]

\* str(value)
str(value) ==
    CASE value.t = "str" -> value
      [] value.t = "int" -> PyStr(IntToChars(value.i))
      [] value.t = "float" ->
             PyStr(IntToChars(value.tenths \div 10) \o <<".">> \o IntToChars(value.tenths % 10))
      [] value.t = "bool" ->
             PyStr(IF value.b THEN <<"T", "r", "u", "e">> ELSE <<"F", "a", "l", "s", "e">>)

\* int(value): a string must be all digits
int(value) ==
    CASE value.t = "int" -> value
      [] value.t = "bool" -> PyInt(IF value.b THEN 1 ELSE 0)
      [] value.t = "float" -> PyInt(value.tenths \div 10)
      [] value.t = "str" ->
             IF IsDigit(value.s) THEN PyInt(CharsToInt(value.s, 0)) ELSE ValueError

\* float(value): a string is digits, or digits, a point and one digit
float(value) ==
    CASE value.t = "float" -> value
      [] value.t = "int" -> PyFloat(value.i * 10)
      [] value.t = "bool" -> PyFloat(IF value.b THEN 10 ELSE 0)
      [] value.t = "str" ->
             IF IsDigit(value.s) THEN PyFloat(CharsToInt(value.s, 0) * 10)
             ELSE IF Contains(value.s, <<".">>)
                     /\ IsDigit(Split1(value.s, <<".">>)[1])
                     /\ IsDigit(Split1(value.s, <<".">>)[2])
                     /\ Len(Split1(value.s, <<".">>)[2]) = 1
             THEN PyFloat(CharsToInt(Split1(value.s, <<".">>)[1], 0) * 10
                              + CharsToInt(Split1(value.s, <<".">>)[2], 0))
             ELSE ValueError

\* galaxy.util.string_as_bool: str(value).lower() in ('true', 'yes', 'on', '1')
string_as_bool(value) ==
    PyBool(lower(str(value).s) \in
               {<<"t", "r", "u", "e">>, <<"y", "e", "s">>, <<"o", "n">>, <<"1">>})

\* one property of the schema
Property(has_default, default, has_type, type) ==
    [has_default |-> has_default, default |-> default, has_type |-> has_type, type |-> type]

MOCK_SCHEMA ==
    [k \in {"property1", "property2", "property3", "property4", "property5", "property6"} |->
        CASE k = "property1" -> Property(TRUE, PyStr(<<"a">>), TRUE, "str")
          [] k = "property2" -> Property(TRUE, PyInt(1), TRUE, "int")
          [] k = "property3" -> Property(TRUE, PyFloat(10), TRUE, "float")
          [] k = "property4" -> Property(TRUE, PyBool(TRUE), TRUE, "bool")
          [] k = "property5" -> Property(FALSE, PyNone, TRUE, "invalid")
          [] k = "property6" -> Property(FALSE, PyNone, FALSE, "")]

\* data.get('default')
GetDefault(data) == IF data.has_default THEN data.default ELSE PyNone

\* _load_config_from_schema: every property of the schema with its default
load_config_from_schema(schema) == [k \in DOMAIN schema |-> GetDefault(schema[k])]

type_converters == {"bool", "int", "float", "str"}

\* a value that is true in a condition
IsValue_truthy(value) ==
    /\ value # PyNone
    /\ value.t = "int" => value.i # 0
    /\ value.t = "float" => value.tenths # 0
    /\ value.t = "bool" => value.b
    /\ value.t = "str" => value.s # <<>>

\* value is not None
IsValue(value) == value # PyNone

\* a keyword argument None taken for no argument: the default is kept
convert_datatype_none_is_default(schema, key, value) ==
    IF value = PyNone THEN GetDefault(schema[key])
    ELSE IF schema[key].has_type /\ schema[key].type \in type_converters
    THEN CASE schema[key].type = "bool" -> string_as_bool(value)
           [] schema[key].type = "int" -> int(value)
           [] schema[key].type = "float" -> float(value)
           [] schema[key].type = "str" -> str(value)
    ELSE value

\* convert_datatype(key, value)
convert_datatype(schema, key, value) ==
    IF IsValue(value) /\ schema[key].has_type /\ schema[key].type \in type_converters
    THEN CASE schema[key].type = "bool" -> string_as_bool(value)
           [] schema[key].type = "int" -> int(value)
           [] schema[key].type = "float" -> float(value)
           [] schema[key].type = "str" -> str(value)
    ELSE value

\* the keys after the update, every keyword argument taken in
UpdatedKeys_all(config, kw) == DOMAIN config \cup DOMAIN kw

\* for key in self._raw_config: the keys after the update
UpdatedKeys(config, kw) == DOMAIN config

\* _update_raw_config_from_kwargs
update_raw_config_from_kwargs(schema, config, kw) ==
    [k \in UpdatedKeys(config, kw) |->
        IF k \in DOMAIN kw
        THEN IF k \in DOMAIN schema THEN convert_datatype(schema, k, kw[k]) ELSE kw[k]
        ELSE config[k]]

KwargNames == DOMAIN MOCK_SCHEMA \cup {"another_key"}

KwargValues ==
    {PyNone, PyStr(<<"b">>), PyStr(<<"2">>), PyStr(<<"2", ".", "0">>),
     PyStr(<<"f", "a", "l", "s", "e">>), PyStr(<<"T", "r", "u", "e">>),
     PyInt(0), PyInt(2), PyInt(66), PyFloat(20), PyBool(FALSE)}

Kwargs ==
    UNION {[K -> KwargValues] : K \in {S \in SUBSET KwargNames : Cardinality(S) <= MaxKwargs}}

\* GalaxyAppConfiguration(**kwargs)
GalaxyAppConfiguration ==
    /\ pc = "idle"
    /\ \E kw \in Kwargs :
        LET config == update_raw_config_from_kwargs(
                          MOCK_SCHEMA, load_config_from_schema(MOCK_SCHEMA), kw)
        IN  /\ kwargs' = kw
            /\ IF \E k \in DOMAIN config : config[k] = ValueError
               THEN pc' = "config_raised" /\ raw_config' = <<>>
               ELSE pc' = "configured" /\ raw_config' = config
            /\ UNCHANGED <<hash_func, namespace, parseVars, scanVars, matchVars,
                           describeVars, nameVars, searchVars, beyondConfigVars>>

NextConfig == GalaxyAppConfiguration

SpecConfig == Init /\ [][NextConfig]_vars

(***************************************************************************)
(* C1                                                                      *)
(***************************************************************************)
\* C1 (as stated): a single target with a version, encoded and parsed back,
\* gives a single-package record with the target's package name and version.
C1_RoundTripAny ==
    pc = "roundtrip" =>
        /\ image.cls = "CachedMulledImageSingleTarget"
        /\ image.package_name = target.package_name
        /\ image.version = target.version

\* A target the encoded name keeps apart: the package name is not itself a
\* mulled-v1-/mulled-v2- name, no ':' in version or build, the tag is not
\* "latest", and the only "--" the tag can be split at is the encoder's.
Plain(t) ==
    /\ ~HasPrefix(t.package_name, MULLED_V1)
    /\ ~HasPrefix(t.package_name, MULLED_V2)
    /\ ~Contains(t.version, COLON)
    /\ IF t.build = None
       THEN t.version # LATEST /\ ~Contains(t.version, DASHDASH)
       ELSE /\ ~Contains(t.build, COLON)
            /\ ~Contains(t.build, DASHDASH)
            /\ ~HasPrefix(t.build, DASH)

\* C1 (amended): the round trip holds for every plain target.
C1_RoundTrip ==
    pc = "roundtrip" /\ Plain(target) =>
        /\ image.cls = "CachedMulledImageSingleTarget"
        /\ image.package_name = target.package_name
        /\ image.version = target.version

C1_Witness ==
    /\ pc = "roundtrip"
    /\ Plain(target)
    /\ target.build # None
    /\ Contains(target.package_name, COLON)
    /\ image.version = target.version

\* Plain is exact: no other target survives the round trip
C1_PlainExact ==
    pc = "roundtrip" /\ ~Plain(target) =>
        ~(/\ image.cls = "CachedMulledImageSingleTarget"
          /\ image.package_name = target.package_name
          /\ image.version = target.version)

(***************************************************************************)
(* C2                                                                      *)
(***************************************************************************)
SingleTarget(img) == img.cls = "CachedMulledImageSingleTarget"

\* C2 (as stated): for every namespace, an identifier that does not start with
\* mulled-v1- or mulled-v2- is classified as a single-package record.
C2_NoPrefixIsSingleAnyNamespace ==
    pc = "parsed" /\ ~HasPrefix(identifier, MULLED_V1) /\ ~HasPrefix(identifier, MULLED_V2)
        => SingleTarget(image)

\* the prefix a multi-target name is looked for behind
ExpectedPrefix == IF namespace = None THEN <<>> ELSE QUAY_IO \o namespace \o SLASH

\* C2 (amended): an identifier that does not start with <prefix>mulled-v1- or
\* <prefix>mulled-v2-, <prefix> being quay.io/<namespace>/ when a namespace is
\* set and empty otherwise, is classified as a single-package record.
C2_NoPrefixIsSingle ==
    pc = "parsed" /\ ~HasPrefix(identifier, ExpectedPrefix \o MULLED_V1)
                  /\ ~HasPrefix(identifier, ExpectedPrefix \o MULLED_V2)
        => SingleTarget(image)

C2_Witness ==
    /\ pc = "parsed"
    /\ namespace # None
    /\ HasPrefix(identifier, MULLED_V2)
    /\ SingleTarget(image)

(***************************************************************************)
(* C3                                                                      *)
(***************************************************************************)
ImageClasses ==
    {"CachedMulledImageSingleTarget", "CachedV1MulledImageMultiTarget",
     "CachedV2MulledImageMultiTarget"}

\* C3 (as stated): every identifier is mapped to a record of exactly one of the
\* three variants, and the record's image_identifier is the identifier.
C3_AlwaysOneVariant ==
    pc = "parsed" => image.cls \in ImageClasses /\ image.image_identifier = identifier

NameOf(id) ==
    IF \E i \in 1..Len(id) : id[i] = ":"
    THEN SubSeq(id, 1, (CHOOSE i \in 1..Len(id) :
                            id[i] = ":" /\ \A j \in (i + 1)..Len(id) : id[j] # ":") - 1)
    ELSE id

OtherConvention ==
    \/ hash_func = "v2" /\ HasPrefix(NameOf(identifier), ExpectedPrefix \o MULLED_V1)
    \/ hash_func = "v1" /\ HasPrefix(NameOf(identifier), ExpectedPrefix \o MULLED_V2)

\* C3 (amended): a name of the other hash convention gives no record; every
\* record that is returned is of one of the three variants and its
\* image_identifier is the identifier, so two identifiers never share a record.
C3_OneVariant ==
    pc = "parsed" =>
        /\ OtherConvention <=> image = NoImage
        /\ image.cls \in ImageClasses => image.image_identifier = identifier
        /\ image.cls \in ImageClasses \cup {"None", "AttributeError"}

C3_Witness ==
    /\ pc = "parsed"
    /\ image.cls = "CachedV2MulledImageMultiTarget"
    /\ namespace # None
    /\ image.version_hash # None
    /\ image.image_identifier = identifier

(***************************************************************************)
(* C4                                                                      *)
(***************************************************************************)
\* the least index of cached_images that satisfies P, or 0
Least(P(_)) ==
    IF \E i \in 1..Len(cached_images) : P(i)
    THEN CHOOSE i \in 1..Len(cached_images) : P(i) /\ \A j \in 1..(i - 1) : ~P(j)
    ELSE 0

FirstOr(P(_)) == IF Least(P) = 0 THEN NoImage ELSE cached_images[Least(P)]

SingleMatch(i) ==
    /\ SingleTarget(cached_images[i])
    /\ cached_images[i].package_name = targets[1].package_name
    /\ targets[1].version = None \/ cached_images[i].version = targets[1].version

\* C4: for one target the matcher returns the first single-package record of
\* the list with the target's package name and, when the target has a version,
\* that version; None when there is none.
C4_SingleFirstMatch ==
    Matched /\ Len(targets) = 1 => found = FirstOr(SingleMatch)

C4_Witness ==
    /\ Matched
    /\ Len(targets) = 1
    /\ Len(cached_images) = 2
    /\ SingleTarget(cached_images[1])
    /\ cached_images[1].package_name = targets[1].package_name
    /\ cached_images[1].version # targets[1].version
    /\ found = cached_images[2]

(***************************************************************************)
(* C5                                                                      *)
(***************************************************************************)
\* the part of s behind its last "/"
Basename(s) ==
    IF \E i \in 1..Len(s) : s[i] = "/"
    THEN SubSeq(s, (CHOOSE i \in 1..Len(s) :
                        s[i] = "/" /\ \A j \in (i + 1)..Len(s) : s[j] # "/") + 1, Len(s))
    ELSE s

\* the part of s behind its last ":", None when there is no ":"
TagOf(s) ==
    IF \E i \in 1..Len(s) : s[i] = ":"
    THEN SubSeq(s, Len(NameOf(s)) + 2, Len(s))
    ELSE None

TargetsPackageHash == NameOf(v2_image_name(targets))

TargetsVersionHash == TagOf(v2_image_name(targets))

V2Match(i) ==
    /\ cached_images[i].cls = "CachedV2MulledImageMultiTarget"
    /\ Basename(cached_images[i].image_name) = TargetsPackageHash
    /\ TargetsVersionHash = None \/ cached_images[i].version_hash = TargetsVersionHash

\* C5: for several targets and hash_func v2 the matcher returns the first v2
\* record whose package hash is the targets' and, when the targets have a
\* version hash, whose version hash is the targets'; None when there is none.
C5_V2FirstMatch ==
    Matched /\ Len(targets) > 1 /\ hash_func = "v2" => found = FirstOr(V2Match)

C5_Witness ==
    /\ pc = "matched_docker"
    /\ Len(targets) > 1
    /\ hash_func = "v2"
    /\ TargetsVersionHash # None
    /\ Len(cached_images) = 2
    /\ cached_images[1].cls = "CachedV2MulledImageMultiTarget"
    /\ found = cached_images[2]

(***************************************************************************)
(* C6                                                                      *)
(***************************************************************************)
V1Named(i) ==
    /\ cached_images[i].cls = "CachedV1MulledImageMultiTarget"
    /\ Basename(NameOf(cached_images[i].image_identifier)) = v1_image_name(targets)

\* C6: for several targets and hash_func v1, when the scanned list holds a v1
\* image named by the combined hash of the targets, the matcher returns the
\* first such image.
C6_V1FirstMatch ==
    Matched /\ Len(targets) > 1 /\ hash_func = "v1" /\ Least(V1Named) # 0
        => found = cached_images[Least(V1Named)]

\* the directory scanner names a v1 image by its file name, and there the
\* first image named by the targets' hash is returned
C6_V1FirstMatchFromPath ==
    pc = "matched_path" /\ Len(targets) > 1 /\ hash_func = "v1" /\ Least(V1Named) # 0
        => found = cached_images[Least(V1Named)]

(***************************************************************************)
(* C7                                                                      *)
(***************************************************************************)
\* C7: the matcher returns None for an empty list of cached images, whatever
\* the targets and the hash_func.
C7_EmptyNoMatch == Matched /\ cached_images = <<>> => found = NoImage

C7_Witness ==
    /\ Matched
    /\ cached_images = <<>>
    /\ contents # <<>>
    /\ Len(targets) > 1
    /\ hash_func = "v1"
    /\ found = NoImage

(***************************************************************************)
(* C8                                                                      *)
(***************************************************************************)
Reorderings(ts) ==
    {[i \in 1..Len(ts) |-> ts[f[i]]] : f \in Permutations(1..Len(ts))}

AllVersionsKnown(ts) == \A i \in 1..Len(ts) : ts[i].version # None

SamePackageHash(ts, us) == NameOf(v2_image_name(ts)) = NameOf(v2_image_name(us))

\* C8 (as stated): for several targets with all versions known and hash_func
\* v2, every reordering of the targets has the same package hash and is matched
\* to the same cached image.
C8_OrderIndependentAny ==
    Matched /\ Len(targets) > 1 /\ AllVersionsKnown(targets) /\ hash_func = "v2" =>
        \A us \in Reorderings(targets) :
            /\ SamePackageHash(us, targets)
            /\ find_best_matching_cached_image(us, cached_images, "v2") = found

DistinctPackages(ts) ==
    \A i, j \in 1..Len(ts) : i # j => ts[i].package_name # ts[j].package_name

\* C8 (amended): every reordering of the targets has the same package hash;
\* when the package names of the targets are pairwise distinct, every
\* reordering is matched to the same cached image.
C8_OrderIndependent ==
    Matched /\ Len(targets) > 1 /\ AllVersionsKnown(targets) /\ hash_func = "v2" =>
        \A us \in Reorderings(targets) :
            /\ SamePackageHash(us, targets)
            /\ DistinctPackages(targets) =>
                   find_best_matching_cached_image(us, cached_images, "v2") = found

C8_Witness ==
    /\ Matched
    /\ Len(targets) > 1
    /\ AllVersionsKnown(targets)
    /\ hash_func = "v2"
    /\ DistinctPackages(targets)
    /\ StrLess(targets[2].package_name, targets[1].package_name)
    /\ found # NoImage
    /\ found.version_hash = TargetsVersionHash

(***************************************************************************)
(* C9                                                                      *)
(***************************************************************************)
Listed == pc \in {"listed_path", "listed_docker"}

NoRecordOf(cls) == \A i \in 1..Len(cached_images) : cached_images[i].cls # cls

\* C9: a mulled-v1- name under hash_func v2 and a mulled-v2- name under
\* hash_func v1 give no record, so a list scanned for v2 holds no v1 record and
\* a list scanned for v1 holds no v2 record.
C9_OtherConventionDropped ==
    /\ pc = "listed_path" =>
           \A i \in 1..Len(contents) :
               \/ hash_func = "v2" /\ HasPrefix(contents[i], MULLED_V1)
               \/ hash_func = "v1" /\ HasPrefix(contents[i], MULLED_V2)
               => raw_images[i] = NoImage
    /\ Listed /\ hash_func = "v2" => NoRecordOf("CachedV1MulledImageMultiTarget")
    /\ Listed /\ hash_func = "v1" => NoRecordOf("CachedV2MulledImageMultiTarget")

C9_Witness ==
    /\ pc = "listed_path"
    /\ hash_func = "v2"
    /\ Len(contents) = 2
    /\ HasPrefix(contents[1], MULLED_V1)
    /\ raw_images[1] = NoImage
    /\ Len(cached_images) = 1

(***************************************************************************)
(* C10                                                                     *)
(***************************************************************************)
AllDigits(s) == s # <<>> /\ \A i \in 1..Len(s) : s[i] \in Digits

\* a mulled-v2- name whose tag is not empty, has no "-" and is not a number
UnparseableV2(id) ==
    /\ HasPrefix(id, MULLED_V2)
    /\ TagOf(id) # None
    /\ TagOf(id) # <<>>
    /\ TagOf(id) # LATEST
    /\ \A i \in 1..Len(TagOf(id)) : TagOf(id)[i] # "-"
    /\ ~AllDigits(TagOf(id))

C11_NeverRaises == pc = "parsed" => image # AttributeError

(***************************************************************************)
(* C12                                                                     *)
(***************************************************************************)
HasDash(s) == \E i \in 1..Len(s) : s[i] = "-"

LastDash(s) == CHOOSE i \in 1..Len(s) : s[i] = "-" /\ \A j \in (i + 1)..Len(s) : s[j] # "-"

BeforeLastDash(s) == SubSeq(s, 1, LastDash(s) - 1)

AfterLastDash(s) == SubSeq(s, LastDash(s) + 1, Len(s))

\* C12: a mulled-v2- name under hash_func v2 with a tag containing "-" has
\* version_hash = the tag before its last "-" and build = the tag behind it;
\* with a purely numeric tag it has no version_hash and build = the tag.  A
\* mulled-v1- name under hash_func v1 has build = the tag when the tag is
\* purely numeric and no build otherwise.
C12_TagSplit ==
    /\ pc = "parsed" /\ hash_func = "v2"
          /\ HasPrefix(NameOf(identifier), ExpectedPrefix \o MULLED_V2)
          /\ TagOf(identifier) # None =>
           /\ HasDash(TagOf(identifier)) =>
                  /\ image.cls = "CachedV2MulledImageMultiTarget"
                  /\ image.version_hash = BeforeLastDash(TagOf(identifier))
                  /\ image.build = AfterLastDash(TagOf(identifier))
           /\ AllDigits(TagOf(identifier)) =>
                  /\ image.cls = "CachedV2MulledImageMultiTarget"
                  /\ image.version_hash = None
                  /\ image.build = TagOf(identifier)
    /\ pc = "parsed" /\ hash_func = "v1"
          /\ HasPrefix(NameOf(identifier), ExpectedPrefix \o MULLED_V1) =>
           /\ image.cls = "CachedV1MulledImageMultiTarget"
           /\ image.build = IF TagOf(identifier) # None /\ AllDigits(TagOf(identifier))
                            THEN TagOf(identifier)
                            ELSE None

C12_Witness ==
    /\ pc = "parsed"
    /\ hash_func = "v2"
    /\ namespace # None
    /\ image.cls = "CachedV2MulledImageMultiTarget"
    /\ image.version_hash # None
    /\ HasDash(image.version_hash)
    /\ AllDigits(image.build)

(***************************************************************************)
(* C13                                                                     *)
(***************************************************************************)
\* C13: when the image listing command exits with a nonzero status, the
\* listing is empty, no error is propagated and the description call
\* resolves no container, whatever the command printed before it failed.
C13_FailedCommandNoContainer ==
    scan = "failed" =>
        /\ pc = "described_docker"
        /\ cached_images = <<>>
        /\ description = [cls |-> "None"]

C13_Witness ==
    /\ scan = "failed"
    /\ pc = "described_docker"
    /\ Len(output) > 1
    /\ \E i \in 2..Len(output) :
           output[i][1] = QuayPrefix(NS) \o targets[1].package_name
               /\ output[i][4] = targets[1].version

(***************************************************************************)
(* C14                                                                     *)
(***************************************************************************)
\* what a call without a cache returns on the raw listing out
Uncached(out, ns, hf) == list_docker_cached_mulled_images(ImagesAndVersions(out), ns, hf)

\* C14: once a call has stored the listing in the caller's resolution cache,
\* a later call with that cache, whatever its namespace and hash_func, does
\* not run the command again and returns what a call without a cache would
\* return on the raw listing that was stored.
C14_CachedListingReused ==
    [][(resolution_cache # [cls |-> "None"] /\ resolution_cache.has_cached_images
            /\ targets' # <<>>) =>
          /\ scan' = "cached"
          /\ output' = output
          /\ resolution_cache' = resolution_cache
          /\ pc' = "described_docker" =>
                 cached_images' = Uncached(output, namespace', hash_func')]_vars

C14_Witness ==
    /\ scan = "cached"
    /\ pc = "described_docker"
    /\ namespace # None
    /\ Len(output) = 3
    /\ Len(cached_images) = 1
    /\ \E i \in 2..Len(output) : ~HasPrefix(output[i][1], QUAY_IO \o NS)
    /\ description # [cls |-> "None"]

(***************************************************************************)
(* C15                                                                     *)
(***************************************************************************)
\* the absolute path of each cache directory, the working directory being /w
AbsolutePathOf(dir) ==
    CASE dir = <<"/", "c">> -> <<"/", "c">>
      [] dir = <<"c", "/">> -> <<"/", "w", "/", "c">>
      [] dir = <<".", ".", "/", "c">> -> <<"/", "c">>

InList(x, list) == \E i \in 1..Len(list) : list[i] = x

\* C15: both description calls return None when the matcher finds nothing;
\* otherwise the description carries the identifier of the matched image,
\* for singularity as the absolute path of that identifier inside the cache
\* directory, and the matched image is one of the scanned list.
C15_DescriptionOfMatchedImage ==
    /\ pc = "described_docker" =>
           IF found = [cls |-> "None"]
           THEN description = [cls |-> "None"]
           ELSE /\ description.cls = "ContainerDescription"
                /\ description.type = "docker"
                /\ description.identifier = found.image_identifier
                /\ InList(found, cached_images)
                /\ \E i \in 1..Len(images_and_versions) :
                       description.identifier =
                           images_and_versions[i][1] \o <<":">> \o images_and_versions[i][2]
    /\ pc = "described_singularity" =>
           IF found = [cls |-> "None"]
           THEN description = [cls |-> "None"]
           ELSE /\ description.cls = "ContainerDescription"
                /\ description.type = "singularity"
                /\ description.identifier =
                       AbsolutePathOf(cache_directory) \o <<"/">> \o found.image_identifier
                /\ InList(found, cached_images)
                /\ InList(found.image_identifier, contents)

C15_Witness ==
    /\ pc = "described_singularity"
    /\ cache_directory = <<"c", "/">>
    /\ Len(targets) = 2
    /\ Len(contents) = 2
    /\ found # [cls |-> "None"]
    /\ found = cached_images[2]
    /\ description.type = "singularity"

C15_WitnessDocker ==
    /\ pc = "described_docker"
    /\ found # [cls |-> "None"]
    /\ description.type = "docker"

(***************************************************************************)
(* C16                                                                     *)
(***************************************************************************)
\* the k-th word of a printed line
Column(line, k) ==
    line[CHOOSE i \in 1..Len(line) :
             /\ line[i] # <<" ">>
             /\ Cardinality({j \in 1..i : line[j] # <<" ">>}) = k]

\* the name of a line passes the filter get_filter(namespace) makes
PassesFilter(line, ns) ==
    /\ HasPrefix(Column(line, 1), IF ns = None THEN QUAY_IO ELSE QUAY_IO \o ns)
    /\ Cardinality({i \in 1..Len(Column(line, 1)) : Column(line, 1)[i] = "/"}) = 2

RecordOfLine(line, ns, hf) ==
    identifier_to_cached_target(Column(line, 1) \o <<":">> \o Column(line, 2), hf, ns)

RECURSIVE RecordsOfLines(_, _, _)
\* the records of the lines that pass the filter and parse, in their order
RecordsOfLines(lines, ns, hf) ==
    IF lines = <<>> THEN <<>>
    ELSE IF PassesFilter(Head(lines), ns)
            /\ RecordOfLine(Head(lines), ns, hf) # [cls |-> "None"]
    THEN <<RecordOfLine(Head(lines), ns, hf)>> \o RecordsOfLines(Tail(lines), ns, hf)
    ELSE RecordsOfLines(Tail(lines), ns, hf)

\* C16: a listing call that runs the command and returns drops the first
\* line of the output, reads name and tag from the first two words of every
\* other line, and returns, in the order of the output, the records of the
\* lines whose name passes the namespace filter and parses to a record.
C16_ListedRecords ==
    scan = "ran" /\ pc = "described_docker" =>
        /\ images_and_versions =
               [i \in 1..(Len(output) - 1) |->
                    <<Column(output[i + 1], 1), Column(output[i + 1], 2)>>]
        /\ cached_images = RecordsOfLines(Tail(output), namespace, hash_func)

C16_Witness ==
    /\ scan = "ran"
    /\ pc = "described_docker"
    /\ namespace # None
    /\ Len(output) = 3
    /\ Len(cached_images) = 1
    /\ PassesFilter(output[2], namespace)
    /\ RecordOfLine(output[2], namespace, hash_func) = [cls |-> "None"]
    /\ cached_images[1].image_identifier = output[3][1] \o <<":">> \o output[3][4]

(***************************************************************************)
(* C17                                                                     *)
(***************************************************************************)
DashDashAt(tag) == {i \in 1..(Len(tag) - 1) : tag[i] = "-" /\ tag[i + 1] = "-"}

LastDashDash(tag) == CHOOSE i \in DashDashAt(tag) : \A j \in DashDashAt(tag) : j <= i

VersionPart(tag) ==
    IF DashDashAt(tag) = {} THEN tag ELSE SubSeq(tag, 1, LastDashDash(tag) - 1)

BuildPart(tag) ==
    IF DashDashAt(tag) = {} THEN <<>> ELSE SubSeq(tag, LastDashDash(tag) + 2, Len(tag))

\* positions of the registry tags whose version part is the required version
TagsOfVersion(tgs, version) ==
    IF tgs = None THEN {} ELSE {i \in 1..Len(tgs) : VersionPart(tgs[i]) = version}

FirstTagOfVersion(tgs, version) ==
    tgs[CHOOSE i \in TagsOfVersion(tgs, version) :
            \A j \in TagsOfVersion(tgs, version) : i <= j]

Named == pc \in {"named", "named_again"}

\* C17: for one target with a required version, a call that asks the
\* registry returns <package>:<version>, followed by --<build> when the tag
\* has a build, of the first tag whose version part is the required version,
\* and None when no tag has that version or there are no tags.
C17_SingleTargetName ==
    Named /\ Len(targets) = 1 /\ targets[1].version # None /\ queried =>
        IF TagsOfVersion(registry_tags, targets[1].version) = {}
        THEN mulled_name = None
        ELSE LET tag == FirstTagOfVersion(registry_tags, targets[1].version)
             IN  mulled_name =
                     targets[1].package_name \o <<":">> \o targets[1].version
                         \o (IF BuildPart(tag) # <<>> THEN <<"-", "-">> \o BuildPart(tag)
                             ELSE <<>>)

C17_Witness ==
    /\ Named
    /\ Len(targets) = 1
    /\ queried
    /\ registry_tags # None
    /\ Len(registry_tags) = 2
    /\ TagsOfVersion(registry_tags, targets[1].version) = {2}
    /\ BuildPart(registry_tags[2]) # <<>>
    /\ mulled_name = targets[1].package_name \o <<":">> \o registry_tags[2]

C17_WitnessNoTag ==
    /\ Named
    /\ Len(targets) = 1
    /\ targets[1].version # None
    /\ queried
    /\ registry_tags # None
    /\ Len(registry_tags) = 1
    /\ mulled_name = None

(***************************************************************************)
(* C18                                                                     *)
(***************************************************************************)
MainEnded == pc \in {"main_returned", "main_exited", "main_raised"}

\* C18: when the import left Schema at None, main writes the message about
\* the missing dependencies and returns; it has parsed no argument and made
\* no conda, GitHub, quay or singularity request.
C18_MissingLibraryReturns ==
    MainEnded /\ Schema = "None" =>
        /\ pc = "main_returned"
        /\ stdout =
               <<"Required dependencies are not installed. Run 'pip install Whoosh'.\n">>
        /\ args = [cls |-> "None"]
        /\ searches = <<>>

C18_Witness ==
    /\ pc = "main_returned"
    /\ Schema = "None"
    /\ Len(stdout) = 1

C18_WitnessSearch ==
    /\ pc = "main_returned"
    /\ Schema = "Schema"
    /\ Len(searches) > 4
    /\ args.json

(***************************************************************************)
(* C19                                                                     *)
(***************************************************************************)
SchemaProperties ==
    {"property1", "property2", "property3", "property4", "property5", "property6"}

\* the defaults the schema declares
SchemaDefault(k) ==
    CASE k = "property1" -> [t |-> "str", s |-> <<"a">>]
      [] k = "property2" -> [t |-> "int", i |-> 1]
      [] k = "property3" -> [t |-> "float", tenths |-> 10]
      [] k = "property4" -> [t |-> "bool", b |-> TRUE]
      [] OTHER -> [t |-> "NoneType"]

\* C19: a constructed configuration holds exactly the properties of the
\* schema; a property without keyword argument holds its schema default,
\* None when there is none; a keyword argument that is no schema property
\* is not added.
C19_ExactlySchemaProperties ==
    pc = "configured" =>
        /\ DOMAIN raw_config = SchemaProperties
        /\ \A k \in SchemaProperties \ DOMAIN kwargs : raw_config[k] = SchemaDefault(k)

C19_Witness ==
    /\ pc = "configured"
    /\ DOMAIN kwargs = {"property2", "another_key"}
    /\ raw_config["property2"] = [t |-> "int", i |-> 2]

\* the assertions of test_load_config_from_schema and
\* test_update_raw_config_from_kwargs
C19_TestAssertions ==
    /\ pc = "configured" /\ DOMAIN kwargs = {} =>
           \A k \in SchemaProperties : raw_config[k] = SchemaDefault(k)
    /\ (/\ pc = "configured"
        /\ DOMAIN kwargs = {"property2", "another_key"}
        /\ kwargs["property2"] = [t |-> "int", i |-> 2]
        /\ kwargs["another_key"] = [t |-> "int", i |-> 66]) =>
           /\ Cardinality(DOMAIN raw_config) = 6
           /\ raw_config["property2"] = [t |-> "int", i |-> 2]
           /\ \A k \in SchemaProperties \ {"property2"} : raw_config[k] = SchemaDefault(k)

(***************************************************************************)
(* C20                                                                     *)
(***************************************************************************)
DeclaredType(k) ==
    CASE k = "property1" -> "str"
      [] k = "property2" -> "int"
      [] k = "property3" -> "float"
      [] k = "property4" -> "bool"
      [] OTHER -> "none"

\* C20: in a constructed configuration a keyword argument that is not None,
\* for a property declared str, int, float or bool, is stored as a value of
\* that type: '2' as the int 2, '2.0' as the float 2.0, 'false' as False,
\* and the falsy 0 for a str property as the string '0'.
C20_StoredConverted ==
    pc = "configured" =>
        \A k \in DOMAIN kwargs \cap {"property1", "property2", "property3", "property4"} :
            kwargs[k] # [t |-> "NoneType"] =>
                /\ raw_config[k].t = DeclaredType(k)
                /\ (k = "property2" /\ kwargs[k] = [t |-> "str", s |-> <<"2">>]) =>
                       raw_config[k] = [t |-> "int", i |-> 2]
                /\ (k = "property3" /\ kwargs[k] = [t |-> "str", s |-> <<"2", ".", "0">>]) =>
                       raw_config[k] = [t |-> "float", tenths |-> 20]
                /\ (k = "property4"
                        /\ kwargs[k] = [t |-> "str", s |-> <<"f", "a", "l", "s", "e">>]) =>
                       raw_config[k] = [t |-> "bool", b |-> FALSE]
                /\ (k = "property1" /\ kwargs[k] = [t |-> "int", i |-> 0]) =>
                       raw_config[k] = [t |-> "str", s |-> <<"0">>]

C20_Witness ==
    /\ pc = "configured"
    /\ DOMAIN kwargs = {"property1", "property4"}
    /\ kwargs["property1"] = [t |-> "int", i |-> 0]
    /\ kwargs["property4"] = [t |-> "str", s |-> <<"f", "a", "l", "s", "e">>]
    /\ raw_config["property1"] = [t |-> "str", s |-> <<"0">>]
    /\ raw_config["property4"] = [t |-> "bool", b |-> FALSE]

(***************************************************************************)
(* C21                                                                     *)
(***************************************************************************)
\* C21: in a constructed configuration every schema property whose keyword
\* argument is None holds None, whatever its declared type and default,
\* the properties with an invalid type or without a type included.
C21_NoneIsStored ==
    pc = "configured" =>
        \A k \in DOMAIN kwargs \cap SchemaProperties :
            kwargs[k] = [t |-> "NoneType"] => raw_config[k] = [t |-> "NoneType"]

C21_Witness ==
    /\ pc = "configured"
    /\ DOMAIN kwargs = {"property2", "property5"}
    /\ kwargs["property2"] = [t |-> "NoneType"]
    /\ kwargs["property5"] = [t |-> "NoneType"]
    /\ raw_config["property2"] = [t |-> "NoneType"]

(***************************************************************************)
(* C22                                                                     *)
(***************************************************************************)
\* a later call with the targets, hash_func and namespace of the call before
SameArguments ==
    /\ pc = "named"
    /\ pc' \in {"named_again", "raised_name"}
    /\ targets' = targets
    /\ hash_func' = hash_func
    /\ namespace' = namespace

\* C22: with a resolution cache, after a call has returned None, a later
\* call with the same targets, namespace and hash_func returns None and
\* does not ask the registry for tags again.
C22_UnresolvedRemembered ==
    [][(SameArguments /\ resolution_cache # [cls |-> "None"] /\ mulled_name = None) =>
          /\ pc' = "named_again"
          /\ ~queried'
          /\ mulled_name' = None]_vars

(***************************************************************************)
(* C23                                                                     *)
(***************************************************************************)
\* C23: with a resolution cache that carries a mulled_resolution_cache,
\* after a call has resolved a name, a later call with the same arguments
\* returns that name and does not ask the registry for tags again.
C23_ResolvedNameReused ==
    [][(/\ SameArguments
        /\ resolution_cache # [cls |-> "None"]
        /\ resolution_cache.mulled_resolution_cache # [cls |-> "None"]
        /\ mulled_name # None) =>
          /\ pc' = "named_again"
          /\ ~queried'
          /\ mulled_name' = mulled_name]_vars

(***************************************************************************)
(* C26                                                                     *)
(***************************************************************************)
\* the image of a record is a repository of the namespace: quay.io/N/<repository>
OfNamespace(img, ns) ==
    HasPrefix(img.image_identifier,
              <<"q", "u", "a", "y", ".", "i", "o", "/">> \o ns \o <<"/">>)

\* C26: every record list_docker_cached_mulled_images returns for a
\* namespace N comes from an image named quay.io/N/<repository>, never from
\* an image of a namespace that only begins with N, and the package_name of
\* every returned single-package record is free of the registry prefix.
C26_OnlyOwnNamespace ==
    pc = "listed_docker" /\ namespace # None =>
        \A i \in 1..Len(cached_images) :
            /\ OfNamespace(cached_images[i], namespace)
            /\ cached_images[i].cls = "CachedMulledImageSingleTarget" =>
                   ~HasPrefix(cached_images[i].package_name,
                              <<"q", "u", "a", "y", ".", "i", "o", "/">>)

(***************************************************************************)
(* Container resolvers                                                     *)
(***************************************************************************)
BIN_BASH == <<"/", "b", "i", "n", "/", "b", "a", "s", "h">>

DOCKER_PROTOCOL == <<"d", "o", "c", "k", "e", "r", ":", "/", "/">>

ResolverTypes ==
    {"cached_mulled", "cached_mulled_singularity", "mulled", "mulled_singularity",
     "build_mulled", "build_mulled_singularity"}

\* the class attribute container_type
container_type(resolver_type) ==
    IF resolver_type \in {"cached_mulled", "mulled", "build_mulled"} THEN "docker"
    ELSE "singularity"

\* the class attribute protocol of the two mulled resolvers, None as ""
protocol(resolver_type) ==
    IF resolver_type = "mulled_singularity" THEN DOCKER_PROTOCOL ELSE <<>>

\* a Python object held where a shell is expected: None, or a resolution
\* cache, which is named by its class
PyObject(cache) == IF cache = NoCache THEN None ELSE <<"d", "i", "c", "t">>

\* what a cache lookup or a resolve call did: it returned value or raised
\* value, after the external actions it performed in this order
Outcome(raised, value, acts, cache) ==
    [raised |-> raised, value |-> value, actions |-> acts, cache |-> cache]

\* lines 205-214 once the listing is parsed into raw: the parser raised, or
\* the best matching image is described
FromDockerImages(ts, hf, shell, raw, acts, cache) ==
    IF Raises(raw) THEN Outcome(TRUE, <<"AttributeError">>, acts, cache)
    ELSE Outcome(FALSE,
                 DockerContainer(find_best_matching_cached_image(ts, NotNone(raw), hf),
                                 shell),
                 acts, cache)

\* docker_cached_container_description as a function of the output the
\* docker image listing prints when it is run
DockerDescription(ts, ns, hf, shell, cache, out) ==
    IF Len(ts) = 0 THEN Outcome(FALSE, NoContainer, <<>>, cache)
    ELSE FromDockerImages(
             ts, hf, shell,
             DockerRawImages(IF CacheHit(cache) THEN cache.cached_images
                             ELSE ImagesAndVersions(out), ns, hf),
             IF CacheHit(cache) THEN <<>> ELSE <<"docker images">>,
             IF CacheHit(cache) THEN cache ELSE CachePut(cache, ImagesAndVersions(out), ns))

\* lines 224-235 once the directory is parsed into raw
FromPathImages(ts, dir, hf, shell, raw) ==
    IF Raises(raw) THEN Outcome(TRUE, <<"AttributeError">>, <<"listdir">>, NoCache)
    ELSE Outcome(FALSE,
                 SingularityContainer(
                     find_best_matching_cached_image(ts, NotNone(raw), hf), dir, shell),
                 <<"listdir">>, NoCache)

\* singularity_cached_container_description as a function of the cache
\* directory: whether it exists and the names it holds
SingularityDescription(ts, dir, hf, shell, directory) ==
    IF Len(ts) = 0 \/ ~directory.exists THEN Outcome(FALSE, NoContainer, <<>>, NoCache)
    ELSE FromPathImages(ts, dir, hf, shell, PathRawImages(directory.names, hf))

\* the enabled test of every resolve looks at the container type only
Disabled_whatever_python_environment(r, tool_info0, kw) ==
    container_type(r.resolver_type) \notin kw.enabled_container_types

\* if tool_info.requires_galaxy_python_environment or
\*         self.container_type not in enabled_container_types: return None
Disabled(r, tool_info0, kw) ==
    \/ tool_info0.requires_galaxy_python_environment
    \/ container_type(r.resolver_type) \notin kw.enabled_container_types

\* a lookup as resolve returns it: the caller's resolution cache is what
\* the lookup left of it
Looked(acts, lookup, cache) == [lookup EXCEPT !.actions = acts \o @, !.cache = cache]

\* CachedMulledDockerContainerResolver.resolve
CachedMulledDockerResolve(r, tool_info0, kw, env) ==
    IF Disabled(r, tool_info0, kw) THEN Outcome(FALSE, NoContainer, <<>>, kw.resolution_cache)
    ELSE DockerDescription(tool_info0.targets, r.namespace, r.hash_func, BIN_BASH,
                           kw.resolution_cache, env.images)

\* CachedMulledSingularityContainerResolver.resolve
CachedMulledSingularityResolve(r, tool_info0, kw, env) ==
    IF Disabled(r, tool_info0, kw) THEN Outcome(FALSE, NoContainer, <<>>, kw.resolution_cache)
    ELSE Looked(<<>>,
                SingularityDescription(tool_info0.targets, r.cache_directory, r.hash_func,
                                       BIN_BASH, env.directory),
                kw.resolution_cache)

\* the parameters of cached_container_description besides self
Parameters(resolver_type) ==
    IF resolver_type = "mulled"
    THEN {"targets", "namespace", "hash_func", "resolution_cache"}
    ELSE {"targets", "namespace", "hash_func"}

\* the arguments resolve calls self.cached_container_description with
Arguments == {"targets", "namespace", "hash_func", "resolution_cache"}

\* self.cached_container_description(targets, namespace=..., hash_func=...,
\* resolution_cache=resolution_cache) on the image listing or the directory
\* of the moment; the docker resolver passes the cache on as fourth
\* positional argument, which is shell
cached_container_description(r, ts, cache, images, directory) ==
    IF ~(Arguments \subseteq Parameters(r.resolver_type))
    THEN Outcome(TRUE, <<"TypeError">>, <<>>, NoCache)
    ELSE IF r.resolver_type = "mulled"
    THEN DockerDescription(ts, r.namespace, r.hash_func, PyObject(cache), NoCache, images)
    ELSE SingularityDescription(ts, r.cache_directory, r.hash_func, BIN_BASH, directory)

\* the pull is asked for whenever install is requested
Asked_without_destination(kw) == kw.install

\* install and destination_for_container_type
Asked(kw) == kw.install /\ kw.destination_for_container_type

\* install and destination_for_container_type and not
\* self.cached_container_description(...), first being the description
Pulled(kw, first) == Asked(kw) /\ ~first.raised /\ first.value = NoContainer

\* lines 435-442: the description resolve returns after the actions acts,
\* second being the cached description of that moment
Finish(r, container_description, acts, cache, second) ==
    IF r.auto_install THEN Outcome(FALSE, container_description, acts, cache)
    ELSE Looked(acts, second, cache)

\* lines 422-442: first is the cached description before any pull
AfterFirst(r, ts, kw, env, container_description, acts, cache, first) ==
    IF Asked(kw) /\ first.raised THEN Outcome(TRUE, first.value, acts \o first.actions, cache)
    ELSE Finish(r, container_description,
                acts \o (IF Asked(kw) THEN first.actions ELSE <<>>)
                     \o (IF Pulled(kw, first) THEN <<"pull">> ELSE <<>>),
                cache,
                cached_container_description(
                    r, ts, kw.resolution_cache,
                    IF Pulled(kw, first) THEN env.images_after ELSE env.images,
                    IF Pulled(kw, first) THEN env.directory_after ELSE env.directory))

\* lines 413-442 of MulledDockerContainerResolver.resolve, which
\* MulledSingularityContainerResolver inherits: a name nm was resolved
ResolveNamed(r, ts, kw, env, nm, acts, cache) ==
    AfterFirst(r, ts, kw, env,
               ContainerDescription(
                   protocol(r.resolver_type) \o QUAY_IO \o r.namespace \o SLASH \o nm,
                   container_type(r.resolver_type), BIN_BASH),
               acts, cache,
               cached_container_description(r, ts, kw.resolution_cache,
                                            env.images, env.directory))

\* lines 411-442: named is what targets_to_mulled_name did
ResolveFrom(r, ts, kw, env, named, acts) ==
    IF named.result.outcome = "raised"
    THEN Outcome(TRUE, named.result.name, acts, named.cache)
    ELSE IF ~Truthy(named.result.name)
    THEN Outcome(FALSE, NoContainer, acts, named.cache)
    ELSE ResolveNamed(r, ts, kw, env, named.result.name, acts, named.cache)

\* the registry is asked for tags when the name is not taken from a cache
TagQuery(named) == IF named.queried THEN <<"mulled_tags_for">> ELSE <<>>

\* MulledDockerContainerResolver.resolve
MulledDockerResolve(r, tool_info0, kw, env) ==
    IF Disabled(r, tool_info0, kw) \/ Len(tool_info0.targets) = 0
    THEN Outcome(FALSE, NoContainer, <<>>, kw.resolution_cache)
    ELSE ResolveFrom(r, tool_info0.targets, kw, env,
                     targets_to_mulled_name(tool_info0.targets, r.hash_func, r.namespace,
                                            kw.resolution_cache, env.tags),
                     TagQuery(targets_to_mulled_name(tool_info0.targets, r.hash_func,
                                                     r.namespace, kw.resolution_cache,
                                                     env.tags)))

\* the build runs only when install is requested
BuildsTargets_on_install(r, kw) == kw.install

\* if self.auto_install or install: mull_targets(...)
BuildsTargets(r, kw) == r.auto_install \/ kw.install

\* BuildMulledDockerContainerResolver.resolve
BuildMulledDockerResolve(r, tool_info0, kw, env) ==
    IF Disabled(r, tool_info0, kw) \/ Len(tool_info0.targets) = 0
    THEN Outcome(FALSE, NoContainer, <<>>, kw.resolution_cache)
    ELSE Looked(IF BuildsTargets(r, kw) THEN <<"mull_targets">> ELSE <<>>,
                DockerDescription(tool_info0.targets, r.namespace, r.hash_func, BIN_BASH,
                                  NoCache,
                                  IF BuildsTargets(r, kw) THEN env.images_after ELSE env.images),
                kw.resolution_cache)

\* BuildMulledSingularityContainerResolver.resolve
BuildMulledSingularityResolve(r, tool_info0, kw, env) ==
    IF Disabled(r, tool_info0, kw) \/ Len(tool_info0.targets) = 0
    THEN Outcome(FALSE, NoContainer, <<>>, kw.resolution_cache)
    ELSE Looked(IF BuildsTargets(r, kw) THEN <<"mull_targets">> ELSE <<>>,
                SingularityDescription(
                    tool_info0.targets, r.cache_directory, r.hash_func, BIN_BASH,
                    IF BuildsTargets(r, kw) THEN env.directory_after ELSE env.directory),
                kw.resolution_cache)

(***************************************************************************)
(* Inputs of the container resolvers                                       *)
(***************************************************************************)
ResolveTargets == {<<>>, <<build_target(PA, V1, None)>>, Versioned}

\* tool_info: requirements are given as the targets mulled_targets makes of them
ToolInfos ==
    [requires_galaxy_python_environment : BOOLEAN, targets : ResolveTargets]

EnabledContainerTypes == {{"docker"}, {"singularity"}, {"docker", "singularity"}}

ResolutionCaches ==
    {NoCache, EmptyCache, [EmptyCache EXCEPT !.mulled_resolution_cache = EmptyMulledCache]}

\* what mulled_tags_for answers
ResolveTags == {None, <<>>, <<V1 \o DASHDASH \o BUILD0>>}

\* what docker images prints: no image, an image of one of the targets, or
\* an image whose tag the parser fails on
ResolveImages ==
    {<<HeaderLine>>,
     <<HeaderLine, ImageLine(QuayPrefix(NS) \o PA, V1)>>,
     <<HeaderLine,
       ImageLine(QuayPrefix(NS) \o IdentifierImageName(v2_image_name(Versioned)),
                 IdentifierVersion(v2_image_name(Versioned)) \o DASH \o BUILD0)>>,
     <<HeaderLine, ImageLine(QuayPrefix(NS) \o v2_image_name(Unversioned), LATEST)>>}

\* the singularity cache directory: missing, or holding one file
ResolveDirectories ==
    {[exists |-> FALSE, names |-> <<>>]}
        \cup {[exists |-> TRUE, names |-> <<n>>] :
                 n \in {FileName(<<PA, V1>>),
                        FileName(<<IdentifierImageName(v2_image_name(Versioned)),
                                   IdentifierVersion(v2_image_name(Versioned))
                                       \o DASH \o BUILD0>>),
                        FileName(<<v2_image_name(Unversioned), None>>)}}

CACHE_DIRECTORY == <<"/", "c">>

\* the resolvers of a class, one for each value of auto_install it reads
Resolvers(resolver_type) ==
    {[resolver_type |-> resolver_type, namespace |-> NS, hash_func |-> "v2",
      auto_install |-> a, cache_directory |-> CACHE_DIRECTORY] :
         a \in IF resolver_type \in {"cached_mulled", "cached_mulled_singularity"}
               THEN {TRUE} ELSE BOOLEAN}

\* the keyword arguments of a call; destination_for_container_type is TRUE
\* when a callable is supplied
Keywords(resolver_type) ==
    [enabled_container_types : EnabledContainerTypes,
     install : IF resolver_type \in {"cached_mulled", "cached_mulled_singularity"}
               THEN {FALSE} ELSE BOOLEAN,
     destination_for_container_type :
         IF resolver_type \in {"mulled", "mulled_singularity"} THEN BOOLEAN ELSE {FALSE},
     resolution_cache :
         IF resolver_type \in {"cached_mulled", "mulled", "mulled_singularity"}
         THEN ResolutionCaches ELSE {NoCache}]

\* what the call finds outside: the registry's answer, the image listing and
\* the cache directory as they are at the start and as they are once a pull
\* or a build has run
Environments(resolver_type) ==
    [tags : IF resolver_type \in {"mulled", "mulled_singularity"}
            THEN ResolveTags ELSE {None},
     images : IF container_type(resolver_type) = "docker"
              THEN ResolveImages ELSE {<<HeaderLine>>},
     images_after : IF resolver_type \in {"mulled", "build_mulled"}
                    THEN ResolveImages ELSE {<<HeaderLine>>},
     directory : IF container_type(resolver_type) = "singularity"
                 THEN ResolveDirectories ELSE {[exists |-> FALSE, names |-> <<>>]},
     directory_after : IF resolver_type \in {"mulled_singularity", "build_mulled_singularity"}
                       THEN ResolveDirectories ELSE {[exists |-> FALSE, names |-> <<>>]}]

(***************************************************************************)
(* Specification of the container resolvers: a resolver of one of the six  *)
(* classes is constructed and its resolve is called once.                  *)
(***************************************************************************)
\* the state after resolve of r was called and did what returned says
Called(r, ti, kw, env, returned) ==
    /\ pc' = IF returned.raised THEN "raised_resolve" ELSE "resolved"
    /\ resolver' = r
    /\ tool_info' = ti
    /\ kwds' = kw
    /\ environment' = env
    /\ actions' = returned.actions
    /\ error' = IF returned.raised THEN returned.value ELSE None
    /\ description' = IF returned.raised THEN NoContainer ELSE returned.value
    /\ resolution_cache' = returned.cache
    /\ UNCHANGED <<hash_func, namespace, parseVars, scanVars, matchVars, output,
                   scan, cache_directory, nameVars, searchVars, configVars, jobVars>>

CachedMulledDockerContainerResolver ==
    /\ pc = "idle"
    /\ \E r \in Resolvers("cached_mulled"), ti \in ToolInfos,
          kw \in Keywords("cached_mulled"), env \in Environments("cached_mulled") :
        Called(r, ti, kw, env, CachedMulledDockerResolve(r, ti, kw, env))

CachedMulledSingularityContainerResolver ==
    /\ pc = "idle"
    /\ \E r \in Resolvers("cached_mulled_singularity"), ti \in ToolInfos,
          kw \in Keywords("cached_mulled_singularity"),
          env \in Environments("cached_mulled_singularity") :
        Called(r, ti, kw, env, CachedMulledSingularityResolve(r, ti, kw, env))

MulledDockerContainerResolver ==
    /\ pc = "idle"
    /\ \E r \in Resolvers("mulled"), ti \in ToolInfos, kw \in Keywords("mulled"),
          env \in Environments("mulled") :
        Called(r, ti, kw, env, MulledDockerResolve(r, ti, kw, env))

\* the subclass inherits resolve
MulledSingularityContainerResolver ==
    /\ pc = "idle"
    /\ \E r \in Resolvers("mulled_singularity"), ti \in ToolInfos,
          kw \in Keywords("mulled_singularity"),
          env \in Environments("mulled_singularity") :
        Called(r, ti, kw, env, MulledDockerResolve(r, ti, kw, env))

BuildMulledDockerContainerResolver ==
    /\ pc = "idle"
    /\ \E r \in Resolvers("build_mulled"), ti \in ToolInfos,
          kw \in Keywords("build_mulled"), env \in Environments("build_mulled") :
        Called(r, ti, kw, env, BuildMulledDockerResolve(r, ti, kw, env))

BuildMulledSingularityContainerResolver ==
    /\ pc = "idle"
    /\ \E r \in Resolvers("build_mulled_singularity"), ti \in ToolInfos,
          kw \in Keywords("build_mulled_singularity"),
          env \in Environments("build_mulled_singularity") :
        Called(r, ti, kw, env, BuildMulledSingularityResolve(r, ti, kw, env))

NextResolve ==
    \/ CachedMulledDockerContainerResolver
    \/ CachedMulledSingularityContainerResolver
    \/ MulledDockerContainerResolver
    \/ MulledSingularityContainerResolver
    \/ BuildMulledDockerContainerResolver
    \/ BuildMulledSingularityContainerResolver

SpecResolve == Init /\ [][NextResolve]_vars

(***************************************************************************)
(* C24                                                                     *)
(***************************************************************************)
\* C24: every container description a resolve call returns carries the
\* container type of its resolver and the shell /bin/bash, the cached
\* description MulledDockerContainerResolver returns with auto_install
\* disabled included, whatever resolution cache was passed.
C24_TypeAndShell ==
    pc = "resolved" /\ description # [cls |-> "None"] =>
        /\ description.type =
               (IF resolver.resolver_type \in {"cached_mulled", "mulled", "build_mulled"}
                THEN "docker" ELSE "singularity")
        /\ description.shell = <<"/", "b", "i", "n", "/", "b", "a", "s", "h">>

(***************************************************************************)
(* C25                                                                     *)
(***************************************************************************)
\* the call got past the enabled test with at least one target
ReachedTargets ==
    /\ pc \in {"resolved", "raised_resolve"}
    /\ ~tool_info.requires_galaxy_python_environment
    /\ (IF resolver.resolver_type \in {"cached_mulled", "mulled", "build_mulled"}
        THEN "docker" ELSE "singularity") \in kwds.enabled_container_types
    /\ tool_info.targets # <<>>

\* the name the registry's tags resolve the targets of the call to, None
\* when they resolve to none
ResolvedName ==
    LET named == targets_to_mulled_name(tool_info.targets, resolver.hash_func,
                                        resolver.namespace, kwds.resolution_cache,
                                        environment.tags).result
    IN  IF named.outcome = "returned" THEN named.name ELSE <<"None">>

\* C25: MulledSingularityContainerResolver.resolve does not raise when a
\* name is resolved and auto_install is disabled or install is requested
\* with a destination: it returns a container description or None.
C25_SingularityResolveReturns ==
    (/\ ReachedTargets
     /\ resolver.resolver_type = "mulled_singularity"
     /\ ResolvedName # <<"None">>
     /\ (~resolver.auto_install
             \/ (kwds.install /\ kwds.destination_for_container_type)))
        => pc = "resolved"

(***************************************************************************)
(* C27                                                                     *)
(***************************************************************************)
\* the container type of the resolver of the call
OwnContainerType ==
    IF resolver.resolver_type \in {"cached_mulled", "mulled", "build_mulled"}
    THEN "docker" ELSE "singularity"

\* the call returned None
ReturnedNone == pc = "resolved" /\ description = [cls |-> "None"]

\* C27: resolve of each of the six resolvers returns None and performs no
\* external action when the tool requires the Galaxy Python environment or
\* the resolver's container type is not enabled; the mulled and the build
\* resolvers return None without a pull or a build for a tool without
\* targets.
C27_DisabledDoesNothing ==
    pc \in {"resolved", "raised_resolve"} =>
        /\ (tool_info.requires_galaxy_python_environment
                \/ OwnContainerType \notin kwds.enabled_container_types)
               => ReturnedNone /\ actions = <<>>
        /\ (/\ resolver.resolver_type \in {"mulled", "mulled_singularity", "build_mulled",
                                           "build_mulled_singularity"}
            /\ tool_info.targets = <<>>)
               => /\ ReturnedNone
                  /\ \A i \in 1..Len(actions) : actions[i] \notin {"pull", "mull_targets"}

\* a tool that requires the Galaxy Python environment, everything else set
\* for a description: the type enabled and an image of the target listed
C27_Witness ==
    /\ ReturnedNone
    /\ actions = <<>>
    /\ resolver.resolver_type = "cached_mulled"
    /\ tool_info.requires_galaxy_python_environment
    /\ "docker" \in kwds.enabled_container_types
    /\ Len(tool_info.targets) = 1
    /\ Len(environment.images) = 2
    /\ environment.images[2][1] = <<"q", "u", "a", "y", ".", "i", "o", "/", "n", "s", "/", "a">>

\* a build resolver that installs, its type not enabled
C27_WitnessBuild ==
    /\ ReturnedNone
    /\ actions = <<>>
    /\ resolver.resolver_type = "build_mulled_singularity"
    /\ resolver.auto_install
    /\ kwds.enabled_container_types = {"docker"}
    /\ tool_info.targets # <<>>

\* a mulled resolver asked to install for a tool without targets
C27_WitnessNoTargets ==
    /\ ReturnedNone
    /\ actions = <<>>
    /\ resolver.resolver_type = "mulled"
    /\ kwds.install
    /\ kwds.destination_for_container_type
    /\ ~tool_info.requires_galaxy_python_environment
    /\ "docker" \in kwds.enabled_container_types
    /\ tool_info.targets = <<>>

(***************************************************************************)
(* C28                                                                     *)
(***************************************************************************)
\* how often the call performed an external action
Performed(action) == Cardinality({i \in 1..Len(actions) : actions[i] = action})

\* the image of a docker listing that matches the targets of the call,
\* NoImage when none does or the listing cannot be parsed
MatchingImage(out) ==
    IF Raises(DockerRawImages(ImagesAndVersions(out), resolver.namespace,
                              resolver.hash_func))
    THEN [cls |-> "None"]
    ELSE find_best_matching_cached_image(
             tool_info.targets,
             NotNone(DockerRawImages(ImagesAndVersions(out), resolver.namespace,
                                     resolver.hash_func)),
             resolver.hash_func)

\* the description of the locally cached image the call ends on
CachedIdentifier(img) ==
    IF img = [cls |-> "None"] THEN description = [cls |-> "None"]
    ELSE /\ description # [cls |-> "None"]
         /\ description.identifier = img.image_identifier

\* C28: MulledDockerContainerResolver.resolve pulls at most once, and only
\* when a name was resolved, install is requested, a destination is
\* supplied and no matching image is cached; a call that resolved a name
\* returns quay.io/<namespace>/<name> when auto_install is enabled and the
\* description of the locally cached image, None without one, when
\* auto_install is disabled.
C28_PullAndDescription ==
    pc \in {"resolved", "raised_resolve"} /\ resolver.resolver_type = "mulled" =>
        /\ Performed("pull") <= 1
        /\ Performed("pull") = 1 =>
               /\ ReachedTargets
               /\ ResolvedName # <<"None">>
               /\ kwds.install
               /\ kwds.destination_for_container_type
               /\ MatchingImage(environment.images) = [cls |-> "None"]
        /\ (pc = "resolved" /\ ReachedTargets /\ ResolvedName # <<"None">>) =>
               IF resolver.auto_install
               THEN /\ description # [cls |-> "None"]
                    /\ description.identifier =
                           <<"q", "u", "a", "y", ".", "i", "o", "/">> \o resolver.namespace
                               \o <<"/">> \o ResolvedName
               ELSE CachedIdentifier(
                        MatchingImage(IF Performed("pull") = 1
                                      THEN environment.images_after
                                      ELSE environment.images))

\* a pull, after which the image is cached and returned
C28_Witness ==
    /\ pc = "resolved"
    /\ resolver.resolver_type = "mulled"
    /\ ~resolver.auto_install
    /\ actions = <<"mulled_tags_for", "docker images", "pull", "docker images">>
    /\ description # [cls |-> "None"]
    /\ description.identifier =
           <<"q", "u", "a", "y", ".", "i", "o", "/", "n", "s", "/", "a", ":", "1">>

\* auto_install enabled, no install requested: the registry's name is returned
C28_WitnessAutoInstall ==
    /\ pc = "resolved"
    /\ resolver.resolver_type = "mulled"
    /\ resolver.auto_install
    /\ ~kwds.install
    /\ actions = <<"mulled_tags_for">>
    /\ description # [cls |-> "None"]
    /\ description.identifier =
           <<"q", "u", "a", "y", ".", "i", "o", "/", "n", "s", "/", "a", ":", "1",
             "-", "-", "0">>

(***************************************************************************)
(* C29                                                                     *)
(***************************************************************************)
\* the build resolver of the call is enabled for the tool, the tool has a
\* target, and auto_install is true or install is requested
BuildExpected ==
    /\ ReachedTargets
    /\ resolver.auto_install \/ kwds.install

\* what the cache lookup of the build resolver of the call gives on an
\* image listing and a cache directory
CacheLookup(images, directory) ==
    IF resolver.resolver_type = "build_mulled"
    THEN DockerDescription(tool_info.targets, resolver.namespace, resolver.hash_func,
                           <<"/", "b", "i", "n", "/", "b", "a", "s", "h">>,
                           [cls |-> "None"], images)
    ELSE SingularityDescription(tool_info.targets, resolver.cache_directory,
                                resolver.hash_func,
                                <<"/", "b", "i", "n", "/", "b", "a", "s", "h">>, directory)

\* C29: resolve of the two build resolvers builds exactly when the resolver
\* is enabled for the tool, the tool has a target and auto_install is true
\* or install is requested; the build comes before the scan of the cache,
\* and the call returns what the lookup in the cache gives after it.
C29_BuildThenLookup ==
    (/\ pc \in {"resolved", "raised_resolve"}
     /\ resolver.resolver_type \in {"build_mulled", "build_mulled_singularity"}) =>
        /\ Performed("mull_targets") = (IF BuildExpected THEN 1 ELSE 0)
        /\ BuildExpected => actions[1] = "mull_targets"
        /\ (pc = "resolved" /\ ReachedTargets) =>
               description =
                   (IF BuildExpected
                    THEN CacheLookup(environment.images_after, environment.directory_after)
                    ELSE CacheLookup(environment.images, environment.directory)).value

\* a build after which the image that was missing is found
C29_Witness ==
    /\ pc = "resolved"
    /\ resolver.resolver_type = "build_mulled"
    /\ ~resolver.auto_install
    /\ kwds.install
    /\ actions = <<"mull_targets", "docker images">>
    /\ Len(environment.images) = 1
    /\ description # [cls |-> "None"]
    /\ description.identifier =
           <<"q", "u", "a", "y", ".", "i", "o", "/", "n", "s", "/", "a", ":", "1">>

\* no build: the lookup is made in the directory as it is
C29_WitnessNoBuild ==
    /\ pc = "resolved"
    /\ resolver.resolver_type = "build_mulled_singularity"
    /\ ~resolver.auto_install
    /\ ~kwds.install
    /\ actions = <<"listdir">>
    /\ description # [cls |-> "None"]
    /\ environment.directory_after # environment.directory

(***************************************************************************)
(* galactic_job_json: Python values of a CWL job                           *)
(***************************************************************************)
MaxJobKeys == 2
MaxUploads == 2

PyList(elements) == [t |-> "list", elements |-> elements]

\* a dict: its <<key, value>> entries in insertion order
PyDict(entries) == [t |-> "dict", entries |-> entries]

\* the id the server gives output j of upload k, or collection k
Id(of, k, j) == [t |-> "id", of |-> of, call |-> k, output |-> j]

HasKey(d, key) == \E i \in 1..Len(d.entries) : d.entries[i][1] = key

\* d[key]
Item(d, key) == d.entries[CHOOSE i \in 1..Len(d.entries) : d.entries[i][1] = key][2]

\* d.get(key, None)
get(d, key) == IF HasKey(d, key) THEN Item(d, key) ELSE PyNone

\* d[key] = v
SetItem(d, key, v) ==
    IF HasKey(d, key)
    THEN PyDict([i \in 1..Len(d.entries) |->
                    IF d.entries[i][1] = key THEN <<key, v>> ELSE d.entries[i]])
    ELSE PyDict(Append(d.entries, <<key, v>>))

\* bool(v) of None and of a string
IsTrue(v) == v.t # "NoneType" /\ (v.t = "str" => v.s # <<>>)

\* a or b
Or(a, b) == IF IsTrue(a) THEN a ELSE b

FILE == PyStr(<<"F", "i", "l", "e">>)
DIRECTORY == PyStr(<<"D", "i", "r", "e", "c", "t", "o", "r", "y">>)
COLLECTION == PyStr(<<"C", "o", "l", "l", "e", "c", "t", "i", "o", "n">>)
HDA == PyStr(<<"h", "d", "a">>)
HDCA == PyStr(<<"h", "d", "c", "a">>)

\* isinstance(value, dict) and value.get("class", None) == class
IsClass(value, class) == value.t = "dict" /\ get(value, "class") = class

\* {"src": src, "id": id}
Reference(src, id) == PyDict(<<<<"src", src>>, <<"id", id>>>>)

(***************************************************************************)
(* Upload targets                                                          *)
(***************************************************************************)
FileLiteralTarget(contents0) == [cls |-> "FileLiteralTarget", contents |-> contents0]

FileUploadTarget(path, secondary_files, kw) ==
    [cls |-> "FileUploadTarget", path |-> path, secondary_files |-> secondary_files,
     composite_data |-> IF HasKey(kw, "composite_data") THEN Item(kw, "composite_data")
                        ELSE PyList(<<>>),
     properties |-> kw]

ObjectUploadTarget(the_object) == [cls |-> "ObjectUploadTarget", object |-> the_object]

DirectoryUploadTarget(tar_path) == [cls |-> "DirectoryUploadTarget", tar_path |-> tar_path]

(***************************************************************************)
(* galactic_job_json                                                       *)
(***************************************************************************)
\* the lists of the call and the exception it raised, "none" while it runs:
\* uploads holds the targets upload_func was called with
NoUploads ==
    [uploads |-> <<>>, datasets |-> <<>>, dataset_collections |-> <<>>, raised |-> "none"]

Result(value, st) == [value |-> value, st |-> st]

Raise(exc, st) == Result(PyNone, [st EXCEPT !.raised = exc])

\* "://" in path_or_uri
IsUri(path) == Contains(path, <<":", "/", "/">>)

\* abs_path_or_uri(path_or_uri, relative_to), the file being there
abs_path_or_uri(path_or_uri, relative_to) ==
    IF ~IsUri(path_or_uri.s) /\ ~startswith(path_or_uri.s, SLASH)
    THEN PyStr(join(relative_to, path_or_uri.s))
    ELSE path_or_uri

\* the response of upload_func to its k-th call: a dict whose outputs are
\* rs[k] datasets; the calls after MaxUploads are answered as that one
UploadOutputs(rs, k) ==
    [j \in 1..rs[IF k > MaxUploads THEN MaxUploads ELSE k] |->
        PyDict(<<<<"id", Id("dataset", k, j)>>>>)]

\* the dataset is the last output of the response
FirstOutput_last(outputs) == outputs[Len(outputs)]

\* dataset = upload_response["outputs"][0]
FirstOutput(outputs) == outputs[1]

\* upload_response = upload_func(target); response_to_hda(target, upload_response)
response_to_hda(target0, outputs, st) ==
    IF Len(outputs) = 0
    THEN Raise("AssertionError", [st EXCEPT !.uploads = Append(@, target0)])
    ELSE Result(Reference(HDA, Item(FirstOutput(outputs), "id")),
                [st EXCEPT !.uploads = Append(@, target0),
                           !.datasets = Append(@, <<FirstOutput(outputs), target0>>)])

Upload(target0, st, rs) == response_to_hda(target0, UploadOutputs(rs, Len(st.uploads) + 1), st)

upload_file(file_path, secondary_files, kw, st, rs, dir) ==
    Upload(FileUploadTarget(abs_path_or_uri(file_path, dir), secondary_files, kw), st, rs)

upload_file_literal(contents0, st, rs) == Upload(FileLiteralTarget(contents0), st, rs)

upload_tar(file_path, st, rs, dir) ==
    Upload(DirectoryUploadTarget(abs_path_or_uri(file_path, dir)), st, rs)

upload_object(the_object, st, rs) == Upload(ObjectUploadTarget(the_object), st, rs)

\* path = entry.get("location", None) or entry.get("path", None) for a dict
\* entry, the entry itself otherwise, made absolute
CompositeData(raw, dir) ==
    PyList([i \in 1..Len(raw.elements) |->
               abs_path_or_uri(
                   IF raw.elements[i].t = "dict"
                   THEN Or(get(raw.elements[i], "location"), get(raw.elements[i], "path"))
                   ELSE raw.elements[i],
                   dir)])

upload_file_with_composite_data(composite_data, filetype, st, rs, dir) ==
    Upload(FileUploadTarget(PyNone, PyNone,
                            PyDict(<<<<"composite_data", CompositeData(composite_data, dir)>>,
                                     <<"filetype", filetype>>>>)),
           st, rs)

\* bool(v) of a value that may be a list
NotEmpty(v) == IF v.t = "list" THEN v.elements # <<>> ELSE IsTrue(v)

\* replacement_file of a File without secondaryFiles
replacement_file(value, st, rs, dir) ==
    IF NotEmpty(get(value, "composite_data"))
    THEN upload_file_with_composite_data(get(value, "composite_data"),
                                         Or(get(value, "filetype"), get(value, "format")),
                                         st, rs, dir)
    ELSE IF Or(get(value, "location"), get(value, "path")) = PyNone
    THEN IF get(value, "contents") # PyNone
         THEN upload_file_literal(get(value, "contents"), st, rs)
         ELSE Result(value, st)
    ELSE upload_file(Or(get(value, "location"), get(value, "path")), PyNone,
                     PyDict(<<<<"filetype", Or(get(value, "filetype"), get(value, "format"))>>>>),
                     st, rs, dir)

\* tmp.name of the tar file replacement_directory writes
TMP_NAME == PyStr(<<"/", "t", "m", "p", "/", "t">>)

replacement_directory(value, st, rs, dir) ==
    IF Or(get(value, "location"), get(value, "path")) = PyNone
    THEN Result(value, st)
    ELSE upload_tar(TMP_NAME, st, rs, dir)

\* replacement_item(value, force_to_file=True)
ForcedItem(value, st, rs, dir) ==
    IF IsClass(value, FILE) THEN replacement_file(value, st, rs, dir)
    ELSE upload_object(value, st, rs)

\* the body of the loop of replacement_record, lines 278-283
RecordItem(value, st, rs, dir) ==
    IF value.t # "dict" \/ get(value, "class") # FILE THEN ForcedItem(value, st, rs, dir)
    ELSE IF ~HasKey(value, "location") THEN Raise("KeyError", st)
    ELSE upload_file(Item(value, "location"), PyList(<<>>), PyDict(<<>>), st, rs, dir)

RECURSIVE CollectionElements(_, _, _, _, _, _)
RECURSIVE NextElement(_, _, _, _, _, _)
\* the loops of lines 243-247, 263-267 and 277-286 over the <<name, item>>
\* pairs that are left, acc being collection_element_identifiers
CollectionElements(pairs, record, acc, st, rs, dir) ==
    IF pairs = <<>> THEN Result(PyList(acc), st)
    ELSE NextElement(pairs, record, acc, rs, dir,
                     IF record THEN RecordItem(Head(pairs)[2], st, rs, dir)
                     ELSE ForcedItem(Head(pairs)[2], st, rs, dir))

\* collection_element = dataset.copy(); collection_element["name"] = ...
NextElement(pairs, record, acc, rs, dir, dataset) ==
    IF dataset.st.raised # "none" THEN dataset
    ELSE CollectionElements(Tail(pairs), record,
                            Append(acc, SetItem(dataset.value, "name", Head(pairs)[1])),
                            dataset.st, rs, dir)

\* collection = collection_create_func(identifiers, collection_type) and
\* the reference to it, identifiers being the result of the loop
CreateCollection(identifiers, collection_type) ==
    IF identifiers.st.raised # "none" THEN identifiers
    ELSE Result(Reference(HDCA, Id("collection",
                                   Len(identifiers.st.dataset_collections) + 1, 1)),
                [identifiers.st EXCEPT
                    !.dataset_collections =
                        Append(@, [id |-> Id("collection", Len(@) + 1, 1),
                                   element_identifiers |-> identifiers.value,
                                   collection_type |-> collection_type])])

\* for i, item in enumerate(value): ... str(i)
Enumerated(elements) ==
    [i \in 1..Len(elements) |-> <<PyStr(IntToChars(i - 1)), elements[i]>>]

replacement_list(value, st, rs, dir) ==
    CreateCollection(CollectionElements(Enumerated(value.elements), FALSE, <<>>, st, rs, dir),
                     PyStr(<<"l", "i", "s", "t">>))

\* for element in elements: ... element["identifier"]
Identified(elements) ==
    [i \in 1..Len(elements) |-> <<Item(elements[i], "identifier"), elements[i]>>]

replacement_collection(value, st, rs, dir) ==
    IF ~HasKey(value, "collection_type") \/ ~HasKey(value, "elements")
    THEN Raise("AssertionError", st)
    ELSE CreateCollection(
             CollectionElements(Identified(Item(value, "elements").elements), FALSE, <<>>,
                                st, rs, dir),
             Item(value, "collection_type"))

\* for record_key, record_value in value.items()
Keyed(entries) == [i \in 1..Len(entries) |-> <<PyStr(<<entries[i][1]>>), entries[i][2]>>]

replacement_record(value, st, rs, dir) ==
    CreateCollection(CollectionElements(Keyed(value.entries), TRUE, <<>>, st, rs, dir),
                     PyStr(<<"r", "e", "c", "o", "r", "d">>))

\* replacement_item(value), force_to_file being False
replacement_item(value, st, rs, dir, mode) ==
    IF value.t = "list" THEN replacement_list(value, st, rs, dir)
    ELSE IF value.t # "dict"
    THEN IF mode = "workflow" THEN upload_object(value, st, rs) ELSE Result(value, st)
    ELSE IF get(value, "class") = FILE THEN replacement_file(value, st, rs, dir)
    ELSE IF get(value, "class") = DIRECTORY THEN replacement_directory(value, st, rs, dir)
    ELSE IF get(value, "class") = COLLECTION THEN replacement_collection(value, st, rs, dir)
    ELSE replacement_record(value, st, rs, dir)

RECURSIVE ReplaceKeys(_, _, _, _, _, _)
RECURSIVE NextKey(_, _, _, _, _, _)
\* for key, value in iteritems(job): replace_keys[key] = replacement_item(value)
ReplaceKeys(entries, replace_keys, st, rs, dir, mode) ==
    IF entries = <<>> THEN Result(PyDict(replace_keys), st)
    ELSE NextKey(entries, replace_keys, rs, dir, mode,
                 replacement_item(Head(entries)[2], st, rs, dir, mode))

NextKey(entries, replace_keys, rs, dir, mode, replaced) ==
    IF replaced.st.raised # "none" THEN replaced
    ELSE ReplaceKeys(Tail(entries),
                     Append(replace_keys, <<Head(entries)[1], replaced.value>>),
                     replaced.st, rs, dir, mode)

\* galactic_job_json(job, test_data_directory, upload_func,
\* collection_create_func, tool_or_workflow): job.update(replace_keys) puts
\* a value under every key of the job, in the order of the job
galactic_job_json(job0, test_data_directory0, rs, mode) ==
    ReplaceKeys(job0.entries, <<>>, NoUploads, rs, test_data_directory0, mode)

(***************************************************************************)
(* Inputs of galactic_job_json                                             *)
(***************************************************************************)
TEST_DATA_DIRECTORY == <<"/", "t">>

RELATIVE_PATH == PyStr(<<"f">>)
ABSOLUTE_PATH == PyStr(<<"/", "f">>)
URI == PyStr(<<"s", ":", "/", "/", "f">>)

FileAt(key, path) == PyDict(<<<<"class", FILE>>, <<key, path>>>>)

\* the values of a job: a scalar, Files with and without a place,
\* Directories, a list, a collection and records
JobValues ==
    {PyInt(1),
     FileAt("location", RELATIVE_PATH),
     FileAt("path", ABSOLUTE_PATH),
     FileAt("contents", PyStr(<<"x">>)),
     PyDict(<<<<"class", FILE>>>>),
     FileAt("composite_data", PyList(<<PyStr(<<"c">>), PyDict(<<<<"path", ABSOLUTE_PATH>>>>)>>)),
     PyDict(<<<<"class", DIRECTORY>>, <<"location", PyStr(<<"d">>)>>>>),
     PyDict(<<<<"class", DIRECTORY>>>>),
     PyList(<<PyInt(1), FileAt("location", URI)>>),
     PyDict(<<<<"class", COLLECTION>>,
              <<"collection_type", PyStr(<<"p", "a", "i", "r", "e", "d">>)>>,
              <<"elements",
                PyList(<<SetItem(FileAt("location", RELATIVE_PATH), "identifier",
                                 PyStr(<<"e">>))>>)>>>>),
     PyDict(<<<<"a", FileAt("location", RELATIVE_PATH)>>, <<"b", PyInt(1)>>>>),
     PyDict(<<<<"a", FileAt("path", ABSOLUTE_PATH)>>>>)}

JobKeys == <<"x", "y", "z">>

\* the jobs: up to MaxJobKeys inputs under the keys x, y, z
Jobs ==
    {PyDict([i \in 1..Len(vs) |-> <<JobKeys[i], vs[i]>>]) : vs \in SeqsUpTo(JobValues, MaxJobKeys)}

\* how many outputs the response to each upload holds
UploadResponses == [1..MaxUploads -> 0..2]

(***************************************************************************)
(* Specification of galactic_job_json: one call on a job                   *)
(***************************************************************************)
Adapted(job0, mode, rs, returned) ==
    /\ pc' = IF returned.st.raised # "none" THEN "raised_job" ELSE "adapted"
    /\ job' = job0
    /\ tool_or_workflow' = mode
    /\ upload_responses' = rs
    /\ returned_job' = IF returned.st.raised # "none" THEN PyNone ELSE returned.value
    /\ datasets' = returned.st.datasets
    /\ upload_calls' = returned.st.uploads
    /\ dataset_collections' = returned.st.dataset_collections
    /\ job_raised' = returned.st.raised
    /\ UNCHANGED <<hash_func, namespace, parseVars, scanVars, matchVars, describeVars,
                   nameVars, searchVars, configVars, resolveVars>>

GalacticJobJson ==
    /\ pc = "idle"
    /\ \E job0 \in Jobs, mode \in {"workflow", "tool"}, rs \in UploadResponses :
        Adapted(job0, mode, rs, galactic_job_json(job0, TEST_DATA_DIRECTORY, rs, mode))

NextJob == GalacticJobJson

SpecJob == Init /\ [][NextJob]_vars

(***************************************************************************)
(* C30                                                                     *)
(***************************************************************************)
Holds(d, key) == d.t = "dict" /\ \E i \in 1..Len(d.entries) : d.entries[i][1] = key

\* the value a dict holds under a key it holds
Under(d, key) == d.entries[CHOOSE i \in 1..Len(d.entries) : d.entries[i][1] = key][2]

\* the dict holds something other than None and "" under the key
Names(d, key) ==
    /\ Holds(d, key)
    /\ Under(d, key) # [t |-> "NoneType"]
    /\ Under(d, key) # [t |-> "str", s |-> <<>>]

OfClass(v, class) ==
    /\ Holds(v, "class")
    /\ Under(v, "class") = [t |-> "str", s |-> class]

\* w is {"src": src, "id": id} for some id
IsReference(w, src) ==
    /\ w.t = "dict"
    /\ Len(w.entries) = 2
    /\ w.entries[1] = <<"src", [t |-> "str", s |-> src]>>
    /\ w.entries[2][1] = "id"

IsHda(w) == IsReference(w, <<"h", "d", "a">>)

IsHdca(w) == IsReference(w, <<"h", "d", "c", "a">>)

\* datasets holds one pair per call of upload_func, in the order of the
\* calls: the first output of the response to the call, and its target
OnePairPerUpload ==
    /\ Len(datasets) = Len(upload_calls)
    /\ \A k \in 1..Len(datasets) :
           datasets[k] =
               <<[t |-> "dict",
                  entries |-> <<<<"id", [t |-> "id", of |-> "dataset", call |-> k,
                                        output |-> 1]>>>>],
                 upload_calls[k]>>

\* a scalar is uploaded as an object in workflow mode and kept in tool mode
ScalarAdapted(v, w) ==
    IF tool_or_workflow = "workflow"
    THEN /\ IsHda(w)
         /\ \E k \in 1..Len(upload_calls) :
                /\ upload_calls[k] = [cls |-> "ObjectUploadTarget", object |-> v]
                /\ w.entries[2][2] = [t |-> "id", of |-> "dataset", call |-> k, output |-> 1]
    ELSE w = v

\* every File, Directory, list, collection or record is replaced by a reference
AllReplaced(v, w) ==
    IF v.t \in {"list", "dict"} THEN IsHda(w) \/ IsHdca(w) ELSE ScalarAdapted(v, w)

\* C30 as it is stated: galactic_job_json returns one (dataset, target) pair
\* per call of upload_func, in call order, the dataset being the first
\* output of the response; every File, Directory, list, collection or
\* record value of the job is replaced by a reference {src: hda|hdca, id},
\* and a scalar is uploaded as an object in workflow mode and left
\* unchanged in tool mode.
C30_AllReplaced ==
    pc = "adapted" =>
        /\ OnePairPerUpload
        /\ \A i \in 1..Len(job.entries) :
               AllReplaced(job.entries[i][2], returned_job.entries[i][2])

\* a File or Directory that names nothing to upload
Placeless(v) ==
    \/ /\ OfClass(v, <<"F", "i", "l", "e">>)
       /\ ~Names(v, "location")
       /\ ~Names(v, "path")
       /\ ~Names(v, "contents")
       /\ ~Holds(v, "composite_data")
    \/ /\ OfClass(v, <<"D", "i", "r", "e", "c", "t", "o", "r", "y">>)
       /\ ~Names(v, "location")
       /\ ~Names(v, "path")

\* a record with a File member that has no key location
RecordWithoutLocation(v) ==
    /\ v.t = "dict"
    /\ ~Holds(v, "class")
    /\ \E i \in 1..Len(v.entries) :
           /\ OfClass(v.entries[i][2], <<"F", "i", "l", "e">>)
           /\ ~Holds(v.entries[i][2], "location")

\* what a returned job holds in place of the value v
ReplacedOrKept(v, w) ==
    IF v.t = "list" THEN IsHdca(w)
    ELSE IF v.t # "dict" THEN ScalarAdapted(v, w)
    ELSE IF Placeless(v) THEN w = v
    ELSE IF OfClass(v, <<"F", "i", "l", "e">>)
                \/ OfClass(v, <<"D", "i", "r", "e", "c", "t", "o", "r", "y">>)
    THEN IsHda(w)
    ELSE IsHdca(w)

\* C30, amended: a call of galactic_job_json that returns gives one
\* (dataset, target) pair per call of upload_func, in call order, the
\* dataset being the first output of the response; every list, collection
\* and record of the job is replaced by a reference {src: hdca, id}, every
\* File with a location, path, contents or composite_data and every
\* Directory with a location or path by a reference {src: hda, id}, a File
\* or Directory without them is left as it is, and a scalar is uploaded as
\* an object in workflow mode and left unchanged in tool mode. A job with
\* a record that has a File member without the key location does not
\* return: the call raises.
C30_ReplacedOrKept ==
    pc \in {"adapted", "raised_job"} =>
        /\ (\E i \in 1..Len(job.entries) : RecordWithoutLocation(job.entries[i][2]))
               => pc = "raised_job" /\ job_raised \in {"KeyError", "AssertionError"}
        /\ pc = "adapted" =>
               /\ OnePairPerUpload
               /\ \A i \in 1..Len(job.entries) :
                      ReplacedOrKept(job.entries[i][2], returned_job.entries[i][2])

\* a list of two items, each uploaded with a response of two outputs, and
\* a File that names no place and is kept
C30_Witness ==
    /\ pc = "adapted"
    /\ Len(job.entries) = 2
    /\ job.entries[1][2].t = "list"
    /\ Placeless(job.entries[2][2])
    /\ returned_job.entries[2][2] = job.entries[2][2]
    /\ IsHdca(returned_job.entries[1][2])
    /\ Len(datasets) = 2
    /\ upload_responses = <<2, 2>>
    /\ Len(dataset_collections) = 1

\* a record with a File member given by its path
C30_WitnessKeyError ==
    /\ pc = "raised_job"
    /\ job_raised = "KeyError"
    /\ Len(job.entries) = 2
    /\ Len(upload_calls) = 1

====
